---- MODULE Spec2Model ----
(***************************************************************************)
(* Video-link metadata plugin: link matchers, platform detector, the three *)
(* metadata fetchers and the annotate pipeline (processVideoLink and the   *)
(* per-platform process*Link), modelled from the TypeScript sources.       *)
(*                                                                         *)
(* Strings are sequences of one-character strings; a JavaScript null or    *)
(* undefined string is Null.  A regular expression is an operator of (s, i) *)
(* giving, for a match attempt anchored at index i, the index one past the *)
(* match (e, 0 when the attempt fails) and the start of capture group 1.   *)
(***************************************************************************)
EXTENDS Integers, Sequences, FiniteSets, TLC

Null == <<"null">>

NoPlatform == "none"

\* ------------------------------------------------------------------------
\* Character classes and regular-expression primitives
\* ------------------------------------------------------------------------

UpperCase == <<"A","B","C","D","E","F","G","H","I","J","K","L","M","N","O","P","Q","R","S","T","U","V","W","X","Y","Z">>

LowerCase == <<"a","b","c","d","e","f","g","h","i","j","k","l","m","n","o","p","q","r","s","t","u","v","w","x","y","z">>

\* the i flag: letters compare by their lower-case form
LowerOf == [c \in {UpperCase[k] : k \in 1..26} |-> LowerCase[CHOOSE k \in 1..26 : UpperCase[k] = c]]

Lower(c) == IF c \in DOMAIN LowerOf THEN LowerOf[c] ELSE c

\* \d
Digits == {"0","1","2","3","4","5","6","7","8","9"}

\* \w
WordChars == Digits \cup {"_"} \cup {UpperCase[k] : k \in 1..26} \cup {LowerCase[k] : k \in 1..26}

\* [a-zA-Z0-9_-]
YtIdChars == WordChars \cup {"-"}

\* membership in a named character class
InClass(cls, c) ==
  CASE cls = "d" -> c \in Digits
    [] cls = "w" -> c \in WordChars
    [] cls = "ytid" -> c \in YtIdChars

\* a literal of the pattern (given in lower case) at index i of s
LitAt(s, i, lit) ==
  /\ i >= 1
  /\ i + Len(lit) - 1 <= Len(s)
  /\ \A k \in 1..Len(lit) : Lower(s[i + k - 1]) = lit[k]

RECURSIVE RunEnd(_, _, _)
\* X+ / X* taken greedily from index i: the index one past the run
RunEnd(s, i, cls) ==
  IF i > Len(s) \/ ~InClass(cls, s[i]) THEN i ELSE RunEnd(s, i + 1, cls)

NoMatch == [e |-> 0, c |-> 0]

\* https?:\/\/(?:www\.)?  -- the prefix the three link patterns share
SchemeEnd(s, i) ==
  LET a == i + 4
      b == IF LitAt(s, a, <<"s">>) THEN a + 1 ELSE a
      c == b + 3
  IN  IF LitAt(s, i, <<"h","t","t","p">>) /\ LitAt(s, b, <<":","/","/">>)
      THEN (IF LitAt(s, c, <<"w","w","w",".">>) THEN c + 4 ELSE c)
      ELSE 0

\* /https?:\/\/(?:www\.)?bilibili\.com\/video\/(?:BV|av)\w+/i
BILIBILI_URL_REGEX(s, i) ==
  LET After(d) ==
        LET e == d + 19
            f == d + 21
        IN  IF /\ d # 0
               /\ LitAt(s, d, <<"b","i","l","i","b","i","l","i",".","c","o","m","/","v","i","d","e","o","/">>)
               /\ (LitAt(s, e, <<"b","v">>) \/ LitAt(s, e, <<"a","v">>))
               /\ f <= Len(s)
               /\ InClass("w", s[f])
            THEN [e |-> RunEnd(s, f, "w"), c |-> 0]
            ELSE NoMatch
  IN  After(SchemeEnd(s, i))

\* /\/video\/(BV\w+|av\d+)/i
VIDEO_ID_REGEX(s, i) ==
  LET p == i + 7
      q == p + 2
  IN  IF ~LitAt(s, i, <<"/","v","i","d","e","o","/">>) \/ q > Len(s)
      THEN NoMatch
      ELSE IF LitAt(s, p, <<"b","v">>) /\ InClass("w", s[q])
      THEN [e |-> RunEnd(s, q, "w"), c |-> p]
      ELSE IF LitAt(s, p, <<"a","v">>) /\ InClass("d", s[q])
      THEN [e |-> RunEnd(s, q, "d"), c |-> p]
      ELSE NoMatch

\* /https?:\/\/(?:www\.)?vimeo\.com\/(\d+)/i
VIMEO_URL_REGEX(s, i) ==
  LET After(d) ==
        LET p == d + 10
        IN  IF /\ d # 0
               /\ LitAt(s, d, <<"v","i","m","e","o",".","c","o","m","/">>)
               /\ p <= Len(s)
               /\ InClass("d", s[p])
            THEN [e |-> RunEnd(s, p, "d"), c |-> p]
            ELSE NoMatch
  IN  After(SchemeEnd(s, i))

YOUTUBE_ID_LEN == 11

\* /https?:\/\/(?:www\.)?(?:youtube\.com\/(?:watch\?v=|embed\/|shorts\/)|youtu\.be\/)([a-zA-Z0-9_-]{11})/i
YOUTUBE_URL_REGEX(s, i) ==
  LET Host(d) ==
        LET y == d + 12
        IN  IF d = 0 THEN 0
            ELSE IF LitAt(s, d, <<"y","o","u","t","u","b","e",".","c","o","m","/">>)
            THEN (IF LitAt(s, y, <<"w","a","t","c","h","?","v","=">>) THEN y + 8
                  ELSE IF LitAt(s, y, <<"e","m","b","e","d","/">>) THEN y + 6
                  ELSE IF LitAt(s, y, <<"s","h","o","r","t","s","/">>) THEN y + 7
                  ELSE 0)
            ELSE IF LitAt(s, d, <<"y","o","u","t","u",".","b","e","/">>) THEN d + 9
            ELSE 0
      Id(p) ==
        IF /\ p # 0
           /\ p + YOUTUBE_ID_LEN - 1 <= Len(s)
           /\ \A k \in p..(p + YOUTUBE_ID_LEN - 1) : InClass("ytid", s[k])
        THEN [e |-> p + YOUTUBE_ID_LEN, c |-> p]
        ELSE NoMatch
  IN  Id(Host(SchemeEnd(s, i)))

\* the pattern of handlePaste, attempted at index i of s:
\* /https?:\/\/(?:www\.)?(?:bilibili\.com\/video\/(?:BV|av)\w+|(?:youtube\.com\/(?:watch\?v=|embed\/)|youtu\.be\/)[a-zA-Z0-9_-]{11}|vimeo\.com\/\d+)/i
HAS_VIDEO_REGEX(s, i) ==
  LET Bilibili(d) ==
        /\ LitAt(s, d, <<"b","i","l","i","b","i","l","i",".","c","o","m","/","v","i","d","e","o","/">>)
        /\ (LitAt(s, d + 19, <<"b","v">>) \/ LitAt(s, d + 19, <<"a","v">>))
        /\ d + 21 <= Len(s)
        /\ InClass("w", s[d + 21])
      YouTubeId(p) ==
        /\ p + YOUTUBE_ID_LEN - 1 <= Len(s)
        /\ \A k \in p..(p + YOUTUBE_ID_LEN - 1) : InClass("ytid", s[k])
      YouTube(d) ==
        \/ /\ LitAt(s, d, <<"y","o","u","t","u","b","e",".","c","o","m","/">>)
           /\ \/ LitAt(s, d + 12, <<"w","a","t","c","h","?","v","=">>) /\ YouTubeId(d + 20)
              \/ LitAt(s, d + 12, <<"e","m","b","e","d","/">>) /\ YouTubeId(d + 18)
        \/ LitAt(s, d, <<"y","o","u","t","u",".","b","e","/">>) /\ YouTubeId(d + 9)
      Vimeo(d) ==
        /\ LitAt(s, d, <<"v","i","m","e","o",".","c","o","m","/">>)
        /\ d + 10 <= Len(s)
        /\ InClass("d", s[d + 10])
      After(d) == d # 0 /\ (Bilibili(d) \/ YouTube(d) \/ Vimeo(d))
  IN  After(SchemeEnd(s, i))

\* handlePaste up to its setTimeout: whether the timer is set for text
hasVideo(text) == \E i \in 1..Len(text) : HAS_VIDEO_REGEX(text, i)

\* the pattern named re, attempted at index i of s
Regex(re, s, i) ==
  CASE re = "bilibili" -> BILIBILI_URL_REGEX(s, i)
    [] re = "youtube" -> YOUTUBE_URL_REGEX(s, i)
    [] re = "vimeo" -> VIMEO_URL_REGEX(s, i)
    [] re = "videoId" -> VIDEO_ID_REGEX(s, i)

\* RegExp.prototype.test (no g flag: no state is kept between calls)
Test(re, s) == \E i \in 1..Len(s) : Regex(re, s, i).e # 0

\* the leftmost index at which the pattern matches
MatchIndex(re, s) ==
  LET Least(found) == CHOOSE i \in found : \A j \in found : i <= j
  IN  Least({i \in 1..Len(s) : Regex(re, s, i).e # 0})

\* String.prototype.match(re): element 0 (the whole match), null when none
Match0(re, s) ==
  IF Test(re, s)
  THEN LET Whole(i, m) == SubSeq(s, i, m.e - 1)
            At(i) == Whole(i, Regex(re, s, i))
       IN  At(MatchIndex(re, s))
  ELSE Null

\* String.prototype.match(re): element 1 (capture group 1), null when none
Match1(re, s) ==
  IF Test(re, s)
  THEN LET Group(m) == SubSeq(s, m.c, m.e - 1)
            At(i) == Group(Regex(re, s, i))
       IN  At(MatchIndex(re, s))
  ELSE Null

\* ------------------------------------------------------------------------
\* Link matchers
\* ------------------------------------------------------------------------

extractVideoId(url) == Match1("videoId", url)

extractVimeoVideoId(url) == Match1("vimeo", url)

extractYouTubeVideoId(url) == Match1("youtube", url)

\* fragment.t === 'l' && fragment.l && RE.test(fragment.l)
LinkFragmentMatches(re, fragment) ==
  /\ fragment.t = "l"
  /\ fragment.l # Null
  /\ fragment.l # <<>>
  /\ Test(re, fragment.l)

RECURSIVE JoinValues(_)
\* block.content.map(f => f.v || '').join('')
JoinValues(content) ==
  IF content = <<>> THEN <<>>
  ELSE (IF Head(content).v = Null THEN <<>> ELSE Head(content).v) \o JoinValues(Tail(content))

\* has*Link: a matching link fragment, else a match in the joined text
HasLink(re, block) ==
  IF ~block.hasContent THEN FALSE
  ELSE \/ \E k \in 1..Len(block.content) : LinkFragmentMatches(re, block.content[k])
       \/ Test(re, JoinValues(block.content))

ExtractUrlTextFirst(re, block) ==
  IF ~block.hasContent THEN Null
  ELSE IF Test(re, JoinValues(block.content))
  THEN Match0(re, JoinValues(block.content))
  ELSE IF \E k \in 1..Len(block.content) : LinkFragmentMatches(re, block.content[k])
  THEN block.content[CHOOSE k \in 1..Len(block.content) :
                       /\ LinkFragmentMatches(re, block.content[k])
                       /\ \A j \in 1..(k - 1) : ~LinkFragmentMatches(re, block.content[j])].l
  ELSE Null

\* extract*Url: the first matching link fragment's URL, else match[0] of the joined text
ExtractUrl(re, block) ==
  IF ~block.hasContent THEN Null
  ELSE IF \E k \in 1..Len(block.content) : LinkFragmentMatches(re, block.content[k])
  THEN block.content[CHOOSE k \in 1..Len(block.content) :
                       /\ LinkFragmentMatches(re, block.content[k])
                       /\ \A j \in 1..(k - 1) : ~LinkFragmentMatches(re, block.content[j])].l
  ELSE Match0(re, JoinValues(block.content))

hasBilibiliLink(block) == HasLink("bilibili", block)

hasYouTubeLink(block) == HasLink("youtube", block)

hasVimeoLink(block) == HasLink("vimeo", block)

extractBilibiliUrl(block) == ExtractUrl("bilibili", block)

extractYouTubeUrl(block) == ExtractUrl("youtube", block)

extractVimeoUrl(block) == ExtractUrl("vimeo", block)

\* ------------------------------------------------------------------------
\* Platform detector
\* ------------------------------------------------------------------------

DetectVimeoBeforeYouTube(block) ==
  IF hasBilibiliLink(block) THEN "bilibili"
  ELSE IF hasVimeoLink(block) THEN "vimeo"
  ELSE IF hasYouTubeLink(block) THEN "youtube"
  ELSE NoPlatform

DetectYouTubeFirst(block) ==
  IF hasYouTubeLink(block) THEN "youtube"
  ELSE IF hasBilibiliLink(block) THEN "bilibili"
  ELSE IF hasVimeoLink(block) THEN "vimeo"
  ELSE NoPlatform

detectVideoPlatform(block) ==
  IF hasBilibiliLink(block) THEN "bilibili"
  ELSE IF hasYouTubeLink(block) THEN "youtube"
  ELSE IF hasVimeoLink(block) THEN "vimeo"
  ELSE NoPlatform

Platforms == {"bilibili", "youtube", "vimeo"}

\* ------------------------------------------------------------------------
\* Inputs
\* ------------------------------------------------------------------------

U_scheme == <<"h","t","t","p","s",":","/","/">>

U_bilibili == U_scheme \o <<"w","w","w",".","b","i","l","i","b","i","l","i",".","c","o","m","/","v","i","d","e","o","/">>

U_bv == U_bilibili \o <<"B","V","1","x","x">>

U_av == <<"h","t","t","p",":","/","/","b","i","l","i","b","i","l","i",".","c","o","m","/","v","i","d","e","o","/","a","v","1","7">>

U_avabc == U_bilibili \o <<"a","v","a","b","c">>

U_watch == U_scheme \o <<"w","w","w",".","y","o","u","t","u","b","e",".","c","o","m","/","w","a","t","c","h","?","v","=","d","Q","w","4","w","9","W","g","X","c","Q">>

U_shorts == U_scheme \o <<"y","o","u","t","u","b","e",".","c","o","m","/","s","h","o","r","t","s","/","_","E","x","-","-","O","v","q","M","o","k">>

U_vimeo == U_scheme \o <<"v","i","m","e","o",".","c","o","m","/","7","6","9">>

U_other == U_scheme \o <<"e","x","a","m","p","l","e",".","c","o","m","/","v","i","d","e","o","/","B","V","9">>

T_plain == <<"s","e","e"," ">>

Text(v) == [t |-> "t", v |-> v, l |-> Null]

Link(l, v) == [t |-> "l", v |-> v, l |-> l]

NoBlock == [exists |-> FALSE, hasContent |-> FALSE, content |-> <<>>]

NoContent == [exists |-> TRUE, hasContent |-> FALSE, content |-> <<>>]

Block(content) == [exists |-> TRUE, hasContent |-> TRUE, content |-> content]

\* ------------------------------------------------------------------------
\* JavaScript value helpers
\* ------------------------------------------------------------------------

\* a string that is neither null/undefined nor ''
Truthy(s) == s # Null /\ s # <<>>

\* x || null
OrNull(s) == IF Truthy(s) THEN s ELSE Null

DigitChars == <<"0","1","2","3","4","5","6","7","8","9">>

\* a non-negative number below 10^width as width decimal digits
RECURSIVE Pad(_, _)
Pad(n, width) ==
  IF width = 0 THEN <<>> ELSE Pad(n \div 10, width - 1) \o <<DigitChars[(n % 10) + 1]>>

ToISODateLocal(sec) ==
  LET z    == ((sec + 28800) \div 86400) + 719468
      era  == z \div 146097
      doe  == z - era * 146097
      yoe  == (doe - doe \div 1460 + doe \div 36524 - doe \div 146096) \div 365
      doy  == doe - (365 * yoe + yoe \div 4 - yoe \div 100)
      mp   == (5 * doy + 2) \div 153
      d    == doy - (153 * mp + 2) \div 5 + 1
      m    == IF mp < 10 THEN mp + 3 ELSE mp - 9
      y    == yoe + era * 400 + (IF m <= 2 THEN 1 ELSE 0)
  IN  Pad(y, 4) \o <<"-">> \o Pad(m, 2) \o <<"-">> \o Pad(d, 2)

\* new Date(sec * 1000).toISOString().split('T')[0] for 0 <= sec (years
\* 1970..9999): the proleptic Gregorian calendar date, in UTC, of the day
\* holding the instant.  The instant is held in seconds (sec * 1000 ms).
ToISODate(sec) ==
  LET z    == (sec \div 86400) + 719468
      era  == z \div 146097
      doe  == z - era * 146097
      yoe  == (doe - doe \div 1460 + doe \div 36524 - doe \div 146096) \div 365
      doy  == doe - (365 * yoe + yoe \div 4 - yoe \div 100)
      mp   == (5 * doy + 2) \div 153
      d    == doy - (153 * mp + 2) \div 5 + 1
      m    == IF mp < 10 THEN mp + 3 ELSE mp - 9
      y    == yoe + era * 400 + (IF m <= 2 THEN 1 ELSE 0)
  IN  Pad(y, 4) \o <<"-">> \o Pad(m, 2) \o <<"-">> \o Pad(d, 2)

\* the clock reading of new Date(), in seconds
NowSec == 1793664000

\* new Date().toISOString().split('T')[0]
Today == ToISODate(NowSec)

RECURSIVE JoinWith(_, _)
\* Array.prototype.join(sep)
JoinWith(list, sep) ==
  IF list = <<>> THEN <<>>
  ELSE IF Len(list) = 1 THEN list[1]
  ELSE list[1] \o sep \o JoinWith(Tail(list), sep)

\* html.match(/src="([^"]+)"/): capture group 1, null when none
IframeSrc(html) ==
  LET Quote(i) == CHOOSE a \in (i + 6)..Len(html) :
                    html[a] = "\"" /\ \A b \in (i + 6)..(a - 1) : html[b] # "\""
      Capture(i, j) == SubSeq(html, i + 5, j - 1)
      From(i) == Capture(i, Quote(i))
      First(Starts) ==
        IF Starts = {} THEN Null
        ELSE From(CHOOSE a \in Starts : \A b \in Starts : a <= b)
  IN  First({i \in 1..Len(html) :
               /\ i + 5 <= Len(html)
               /\ SubSeq(html, i, i + 4) = <<"s","r","c","=","\"">>
               /\ html[i + 5] # "\""
               /\ \E j \in (i + 6)..Len(html) : html[j] = "\""})

\* ------------------------------------------------------------------------
\* Metadata fetchers.  An HTTP exchange is a record: net ("ok", or "error"
\* when fetch() rejects), ok and status (the response), json ("ok", or "bad"
\* when the body does not parse to an object), body (the parsed payload).
\* A fetcher's outcome is [threw, msg, info, requests]: whether the returned
\* promise rejects, the Error's message, the value it resolves to, and the
\* number of HTTP requests it issued.
\* ------------------------------------------------------------------------

Resolved(info, n) == [threw |-> FALSE, msg |-> "", info |-> info, requests |-> n]

\* no VideoInfo value (the call has not resolved to one)
NoInfo == [none |-> TRUE]

Rejected(msg, n) == [threw |-> TRUE, msg |-> msg, info |-> NoInfo, requests |-> n]

\* the response did not yield a parsed body
Unusable(resp) == resp.net = "error" \/ ~resp.ok \/ resp.json = "bad"

EmptyBilibiliInfo ==
  [coverUrl |-> Null, upName |-> Null, title |-> Null, tags |-> <<>>, publishDate |-> Null]

getVideoInfoIgnoresCode(resp) ==
  IF Unusable(resp) THEN EmptyBilibiliInfo
  ELSE [coverUrl    |-> OrNull(resp.body.pic),
        upName      |-> OrNull(resp.body.ownerName),
        title       |-> OrNull(resp.body.title),
        tags        |-> <<>>,
        publishDate |-> IF resp.body.pubdate # 0 THEN ToISODate(resp.body.pubdate) ELSE Null]

getVideoInfoNeedsCover(resp) ==
  IF Unusable(resp) THEN EmptyBilibiliInfo
  ELSE IF resp.body.code = 0 /\ resp.body.hasData /\ Truthy(resp.body.pic)
  THEN [coverUrl    |-> OrNull(resp.body.pic),
        upName      |-> OrNull(resp.body.ownerName),
        title       |-> OrNull(resp.body.title),
        tags        |-> <<>>,
        publishDate |-> IF resp.body.pubdate # 0 THEN ToISODate(resp.body.pubdate) ELSE Null]
  ELSE EmptyBilibiliInfo

\* bilibili getVideoInfo
getVideoInfo(resp) ==
  IF Unusable(resp) THEN EmptyBilibiliInfo
  ELSE IF resp.body.code = 0 /\ resp.body.hasData
  THEN [coverUrl    |-> OrNull(resp.body.pic),
        upName      |-> OrNull(resp.body.ownerName),
        title       |-> OrNull(resp.body.title),
        tags        |-> <<>>,
        publishDate |-> IF resp.body.pubdate # 0 THEN ToISODate(resp.body.pubdate) ELSE Null]
  ELSE EmptyBilibiliInfo

\* name.trim().length > 0
NotBlank(name) == \E k \in 1..Len(name) : name[k] # " "

RECURSIVE TagNames(_)
\* data.data.map(tag => tag.tag_name || '').filter(name => name.trim().length > 0)
TagNames(names) ==
  IF names = <<>> THEN <<>>
  ELSE LET name == IF Truthy(Head(names)) THEN Head(names) ELSE <<>>
       IN  (IF NotBlank(name) THEN <<name>> ELSE <<>>) \o TagNames(Tail(names))

\* bilibili getVideoTags
getVideoTags(resp) ==
  IF Unusable(resp) THEN <<>>
  ELSE IF resp.body.code = 0 /\ resp.body.isArray THEN TagNames(resp.body.names)
  ELSE <<>>

getCompleteVideoInfoAllOrNothing(viewResp, tagsResp) ==
  IF Unusable(tagsResp) THEN Resolved(EmptyBilibiliInfo, 2)
  ELSE Resolved([getVideoInfo(viewResp) EXCEPT !.tags = getVideoTags(tagsResp)], 2)

\* bilibili getCompleteVideoInfo: Promise.all of the two calls, neither of which rejects
getCompleteVideoInfo(viewResp, tagsResp) ==
  Resolved([getVideoInfo(viewResp) EXCEPT !.tags = getVideoTags(tagsResp)], 2)

EmptyYouTubeInfo ==
  [author |-> Null, thumbnailUrl |-> Null, html |-> Null, publishDate |-> Today, tags |-> <<>>]

getYouTubeVideoDetailsLowestFirst(resp) ==
  IF resp.net = "error" THEN Rejected("network", 1)
  ELSE IF ~resp.ok THEN Rejected("YouTube Data API request failed", 1)
  ELSE IF resp.json = "bad" THEN Rejected("json", 1)
  ELSE IF ~resp.body.hasItems THEN Rejected("video not found", 1)
  ELSE Resolved(
         [author       |-> OrNull(resp.body.channelTitle),
          thumbnailUrl |-> IF Truthy(resp.body.default) THEN resp.body.default
                           ELSE IF Truthy(resp.body.medium) THEN resp.body.medium
                           ELSE OrNull(resp.body.high),
          html         |-> Null,
          publishDate  |-> IF resp.body.publishedAt # 0
                           THEN ToISODate(resp.body.publishedAt) ELSE Today,
          tags         |-> resp.body.tags], 1)

\* getYouTubeVideoDetails (Data API v3)
getYouTubeVideoDetails(resp) ==
  IF resp.net = "error" THEN Rejected("network", 1)
  ELSE IF ~resp.ok THEN Rejected("YouTube Data API request failed", 1)
  ELSE IF resp.json = "bad" THEN Rejected("json", 1)
  ELSE IF ~resp.body.hasItems THEN Rejected("video not found", 1)
  ELSE Resolved(
         [author       |-> OrNull(resp.body.channelTitle),
          thumbnailUrl |-> IF Truthy(resp.body.high) THEN resp.body.high
                           ELSE IF Truthy(resp.body.medium) THEN resp.body.medium
                           ELSE OrNull(resp.body.default),
          html         |-> Null,
          publishDate  |-> IF resp.body.publishedAt # 0
                           THEN ToISODate(resp.body.publishedAt) ELSE Today,
          tags         |-> resp.body.tags], 1)

getYouTubeVideoInfoFallsBack(videoUrl, apiKey, apiResp, oembedResp) ==
  IF Truthy(apiKey) /\ extractYouTubeVideoId(videoUrl) # Null /\ ~getYouTubeVideoDetails(apiResp).threw
  THEN getYouTubeVideoDetails(apiResp)
  ELSE IF Unusable(oembedResp) THEN Resolved(EmptyYouTubeInfo, 1)
  ELSE Resolved(
         [author       |-> OrNull(oembedResp.body.author_name),
          thumbnailUrl |-> OrNull(oembedResp.body.thumbnail_url),
          html         |-> OrNull(oembedResp.body.html),
          publishDate  |-> Today,
          tags         |-> <<>>], 1)

getYouTubeVideoInfoRethrows(videoUrl, apiKey, apiResp, oembedResp) ==
  IF Truthy(apiKey) /\ extractYouTubeVideoId(videoUrl) # Null
  THEN getYouTubeVideoDetails(apiResp)
  ELSE IF oembedResp.net = "error" THEN Rejected("network", 1)
  ELSE IF Unusable(oembedResp) THEN Resolved(EmptyYouTubeInfo, 1)
  ELSE Resolved(
         [author       |-> OrNull(oembedResp.body.author_name),
          thumbnailUrl |-> OrNull(oembedResp.body.thumbnail_url),
          html         |-> OrNull(oembedResp.body.html),
          publishDate  |-> Today,
          tags         |-> <<>>], 1)

\* getYouTubeVideoInfo: the Data API when a key is configured, else oEmbed
getYouTubeVideoInfo(videoUrl, apiKey, apiResp, oembedResp) ==
  IF Truthy(apiKey) /\ extractYouTubeVideoId(videoUrl) # Null
  THEN (IF getYouTubeVideoDetails(apiResp).threw
        THEN Resolved(EmptyYouTubeInfo, 1)
        ELSE getYouTubeVideoDetails(apiResp))
  ELSE IF Unusable(oembedResp) THEN Resolved(EmptyYouTubeInfo, 1)
  ELSE Resolved(
         [author       |-> OrNull(oembedResp.body.author_name),
          thumbnailUrl |-> OrNull(oembedResp.body.thumbnail_url),
          html         |-> OrNull(oembedResp.body.html),
          publishDate  |-> Today,
          tags         |-> <<>>], 1)

\* the endpoints getYouTubeVideoInfo requests, in order
YouTubeRequests(videoUrl, apiKey) ==
  IF Truthy(apiKey) /\ extractYouTubeVideoId(videoUrl) # Null
  THEN <<"dataApi">> ELSE <<"oembed">>

\* getVimeoEmbedUrl (oEmbed): the iframe src of the returned markup
getVimeoEmbedUrl(resp) ==
  IF Unusable(resp) THEN Null
  ELSE IF Truthy(resp.body.html) THEN IframeSrc(resp.body.html)
  ELSE Null

LargestPictureFirst(sizes) == sizes[1].link

\* sizes.sort((a, b) => b.width - a.width)[0].link, the sort being stable
LargestPicture(sizes) ==
  sizes[CHOOSE k \in 1..Len(sizes) :
          /\ \A j \in 1..Len(sizes) : sizes[j].width <= sizes[k].width
          /\ \A j \in 1..(k - 1) : sizes[j].width < sizes[k].width].link

\* getVimeoVideoInfo: every failure is logged and rethrown by the catch block
getVimeoVideoInfo(videoUrl, resp, oembedResp) ==
  IF resp.net = "error" THEN Rejected("network", 1)
  ELSE IF ~resp.ok
  THEN Rejected(IF resp.status = 404 THEN "video does not exist"
                ELSE IF resp.status = 403 THEN "no permission"
                ELSE "API request failed", 1)
  ELSE IF resp.json = "bad" THEN Rejected("json", 1)
  ELSE LET needsOembed == ~Truthy(resp.body.player_embed_url) /\ Truthy(videoUrl)
       IN  Resolved(
             [thumbnailUrl |-> IF Len(resp.body.sizes) > 0
                               THEN LargestPicture(resp.body.sizes) ELSE Null,
              author       |-> OrNull(resp.body.userName),
              title        |-> OrNull(resp.body.name),
              tags         |-> resp.body.categories,
              publishDate  |-> IF resp.body.release_time # 0
                               THEN ToISODate(resp.body.release_time)
                               ELSE IF resp.body.created_time # 0
                               THEN ToISODate(resp.body.created_time)
                               ELSE Today,
              embedUrl     |-> IF Truthy(resp.body.player_embed_url)
                               THEN resp.body.player_embed_url
                               ELSE IF Truthy(videoUrl) THEN getVimeoEmbedUrl(oembedResp)
                               ELSE Null],
             IF needsOembed THEN 2 ELSE 1)

\* ------------------------------------------------------------------------
\* Sample HTTP exchanges
\* ------------------------------------------------------------------------

Http(net, status, json, body) ==
  [net |-> net, ok |-> (status >= 200 /\ status <= 299), status |-> status, json |-> json, body |-> body]

ViewBody(code, hasData, pic, ownerName, title, pubdate) ==
  [code |-> code, hasData |-> hasData, pic |-> pic, ownerName |-> ownerName,
   title |-> title, pubdate |-> pubdate]

Cover1 == <<"c","1">>

Author1 == <<"u","1">>

Title1 == <<"t","1">>

BilibiliViewResponses ==
  LET none == ViewBody(0, FALSE, Null, Null, Null, 0)
  IN  { Http("error", 0, "bad", none),
        Http("ok", 404, "ok", none),
        Http("ok", 200, "bad", none),
        Http("ok", 200, "ok", ViewBody(-400, FALSE, Null, Null, Null, 0)),
        Http("ok", 200, "ok", ViewBody(0, TRUE, Cover1, Author1, Title1, 1640995200)),
        Http("ok", 200, "ok", ViewBody(0, TRUE, Cover1, Null, Null, 0)),
        Http("ok", 200, "ok", ViewBody(0, TRUE, Null, Author1, Title1, 1640995200)) }

TagsBody(code, isArray, names) == [code |-> code, isArray |-> isArray, names |-> names]

BilibiliTagsResponses ==
  { Http("error", 0, "bad", TagsBody(0, FALSE, <<>>)),
    Http("ok", 200, "ok", TagsBody(0, TRUE, << <<"a">>, <<" ">>, Null, <<"b">> >>)) }

ApiBody(hasItems, channelTitle, publishedAt, high, medium, default, tags) ==
  [hasItems |-> hasItems, channelTitle |-> channelTitle, publishedAt |-> publishedAt,
   high |-> high, medium |-> medium, default |-> default, tags |-> tags]

YouTubeApiResponses ==
  LET none == ApiBody(FALSE, Null, 0, Null, Null, Null, <<>>)
  IN  { Http("error", 0, "bad", none),
        Http("ok", 403, "ok", none),
        Http("ok", 200, "ok", none),
        Http("ok", 200, "ok", ApiBody(TRUE, Author1, 1640995200, Cover1, <<"c","2">>, <<"c","3">>, << <<"a">> >>)),
        Http("ok", 200, "ok", ApiBody(TRUE, Null, 0, Null, Null, Null, <<>>)) }

OembedBody(author_name, thumbnail_url, html) ==
  [author_name |-> author_name, thumbnail_url |-> thumbnail_url, html |-> html]

IframeHtml == <<"<","i"," ","s","r","c","=","\"","e","1","\"",">">>

YouTubeOembedResponses ==
  LET none == OembedBody(Null, Null, Null)
  IN  { Http("error", 0, "bad", none),
        Http("ok", 404, "ok", none),
        Http("ok", 200, "ok", OembedBody(Author1, Cover1, IframeHtml)),
        Http("ok", 200, "ok", OembedBody(Null, Cover1, Null)),
        Http("ok", 200, "ok", OembedBody(Author1, Null, IframeHtml)) }

VimeoBody(sizes, release_time, created_time, player_embed_url, userName, name, categories) ==
  [sizes |-> sizes, release_time |-> release_time, created_time |-> created_time,
   player_embed_url |-> player_embed_url, userName |-> userName, name |-> name,
   categories |-> categories]

VimeoApiResponses ==
  LET none == VimeoBody(<<>>, 0, 0, Null, Null, Null, <<>>)
  IN  { Http("error", 0, "bad", none),
        Http("ok", 404, "ok", none),
        Http("ok", 403, "ok", none),
        Http("ok", 500, "ok", none),
        Http("ok", 200, "bad", none),
        Http("ok", 200, "ok", none),
        Http("ok", 200, "ok",
             VimeoBody(<< [width |-> 100, link |-> <<"c","2">>], [width |-> 640, link |-> Cover1] >>,
                       1640995200, 1609459200, Null, Author1, Title1, << <<"a">>, <<"b">> >>)),
        Http("ok", 200, "ok",
             VimeoBody(<< [width |-> 640, link |-> Cover1] >>, 0, 0, <<"e","2">>, Null, Null, <<>>)) }

VimeoOembedResponses ==
  { Http("error", 0, "bad", OembedBody(Null, Null, Null)),
    Http("ok", 200, "ok", OembedBody(Author1, Cover1, IframeHtml)) }

\* ------------------------------------------------------------------------
\* Host document and plugin settings
\* ------------------------------------------------------------------------

\* the alias of the platform tag ('哔哩哔哩', 'Youtube', 'Vimeo')
TagAlias(p) ==
  CASE p = "bilibili" -> "Bilibili" [] p = "youtube" -> "Youtube" [] p = "vimeo" -> "Vimeo"

\* the prefix of the author tag ('哔哩UP：', '油管博主：', 'Vimeo作者：')
AuthorPrefix(p) ==
  CASE p = "bilibili" -> "BilibiliUP:" [] p = "youtube" -> "YouTubeBlogger:" [] p = "vimeo" -> "VimeoAuthor:"

NoData == [img |-> Null, tags |-> Null, publishDate |-> Null, publishDateText |-> Null]

EmptyDoc == [refs |-> {}, refData |-> [p \in Platforms |-> NoData], children |-> <<>>]

Settings(image, video, key, token) ==
  [insertImageBlock |-> image, insertVideoBlock |-> video,
   youtubeApiKey |-> key, vimeoAccessToken |-> token]

SampleSettings ==
  { Settings("unset", "unset", Null, Null),
    Settings("unset", "unset", <<"k">>, <<"t">>),
    Settings("false", "true", <<>>, <<"t">>),
    Settings("true", "true", <<"k">>, <<"t">>),
    Settings("true", "false", <<"k">>, <<>>) }

PipelineBlocks ==
  { NoBlock, NoContent, Block(<<>>), Block(<<Text(T_plain)>>),
    Block(<<Link(U_bv, T_plain)>>),
    Block(<<Text(U_avabc)>>),
    Block(<<Text(T_plain \o U_watch)>>),
    Block(<<Link(U_vimeo, T_plain)>>) }

CoverOf(p, info) == IF p = "bilibili" THEN info.coverUrl ELSE info.thumbnailUrl

AuthorOf(p, info) == IF p = "bilibili" THEN info.upName ELSE info.author

VideoIdOf(p, u) ==
  CASE p = "bilibili" -> extractVideoId(u)
    [] p = "vimeo" -> extractVimeoVideoId(u)
    [] p = "youtube" -> Null

\* the outcomes of the platform's fetcher over the sample exchanges
FetchOutcomes(p, u, st) ==
  CASE p = "bilibili" ->
         { [http |-> a, out |-> getCompleteVideoInfo(a, b)] :
             a \in BilibiliViewResponses, b \in BilibiliTagsResponses }
    [] p = "youtube" ->
         { [http |-> (IF Truthy(st.youtubeApiKey) /\ extractYouTubeVideoId(u) # Null THEN a ELSE b),
            out |-> getYouTubeVideoInfo(u, st.youtubeApiKey, a, b)] :
             a \in YouTubeApiResponses, b \in YouTubeOembedResponses }
    [] p = "vimeo" ->
         { [http |-> a, out |-> getVimeoVideoInfo(u, a, b)] :
             a \in VimeoApiResponses, b \in VimeoOembedResponses }

Note(level, text, detail) == [level |-> level, text |-> text, detail |-> detail]

\* ------------------------------------------------------------------------
\* The annotate sequence
\* ------------------------------------------------------------------------

StageOrderImageFirst ==
  <<"fetch", "insertTag", "insertImage", "setRefData", "insertVideo", "insertAuthorTag", "notifySuccess">>

\* the awaited steps of process*Link, in program order
StageOrder ==
  <<"fetch", "insertTag", "setRefData", "insertImage", "insertVideo", "insertAuthorTag", "notifySuccess">>

StageIndex(stage) == CHOOSE k \in 1..Len(StageOrder) : StageOrder[k] = stage

StageAppliesUnsetOff(stage, p, st, info, ref) ==
  CASE stage = "insertTag" -> TRUE
    [] stage = "setRefData" -> ref
    [] stage = "insertImage" -> st.insertImageBlock = "true"
    [] stage = "insertVideo" ->
         st.insertVideoBlock = "true" /\ (p = "youtube" => Truthy(info.html))
    [] stage = "insertAuthorTag" -> Truthy(AuthorOf(p, info))
    [] stage = "notifySuccess" -> TRUE

\* the condition guarding each step
StageApplies(stage, p, st, info, ref) ==
  CASE stage = "insertTag" -> TRUE
    [] stage = "setRefData" -> ref
    [] stage = "insertImage" -> st.insertImageBlock # "false"
    [] stage = "insertVideo" ->
         st.insertVideoBlock = "true" /\ (p = "youtube" => Truthy(info.html))
    [] stage = "insertAuthorTag" -> Truthy(AuthorOf(p, info))
    [] stage = "notifySuccess" -> TRUE

\* the step the function reaches next after `after` has resolved
NextStage(after, p, st, info, ref) ==
  StageOrder[CHOOSE k \in (StageIndex(after) + 1)..Len(StageOrder) :
               /\ StageApplies(StageOrder[k], p, st, info, ref)
               /\ \A j \in (StageIndex(after) + 1)..(k - 1) :
                    ~StageApplies(StageOrder[j], p, st, info, ref)]

\* src of the video block
VideoSrc(p, info, u) ==
  CASE p = "bilibili" -> u
    [] p = "youtube" -> (IF IframeSrc(info.html) # Null THEN IframeSrc(info.html) ELSE u)
    [] p = "vimeo" -> (IF Truthy(info.embedUrl) THEN info.embedUrl ELSE u)

\* the property list handed to setRefData
RefData(p, info) ==
  [img             |-> CoverOf(p, info),
   tags            |-> JoinWith(info.tags, <<"|">>),
   publishDate     |-> IF Truthy(info.publishDate) THEN info.publishDate ELSE Today,
   publishDateText |-> IF Truthy(info.publishDate) THEN info.publishDate
                       ELSE IF p = "bilibili" THEN <<>> ELSE Today]

\* the host document after the host has carried out the command of a step
ApplyStage(stage, d, p, info, u) ==
  CASE stage = "insertTag" ->
         [d EXCEPT !.refs = @ \cup {<<TagAlias(p), <<>>>>}]
    [] stage = "setRefData" ->
         [d EXCEPT !.refData[p] = RefData(p, info)]
    [] stage = "insertImage" ->
         [d EXCEPT !.children = Append(@, [type |-> "image", src |-> CoverOf(p, info)])]
    [] stage = "insertVideo" ->
         [d EXCEPT !.children = Append(@, [type |-> "video", src |-> VideoSrc(p, info, u)])]
    [] stage = "insertAuthorTag" ->
         [d EXCEPT !.refs = @ \cup {<<AuthorPrefix(p), AuthorOf(p, info)>>}]

CatchRollsBack(p, msg, nts, d, d0) ==
  [notes   |-> Append(nts, Note("error", "processing failed", IF p = "vimeo" THEN msg ELSE "")),
   escaped |-> FALSE,
   doc     |-> d0]

\* the catch block of process*Link: one error notification, nothing rethrown,
\* nothing undone
CatchHandler(p, msg, nts, d, d0) ==
  [notes   |-> Append(nts, Note("error", "processing failed", IF p = "vimeo" THEN msg ELSE "")),
   escaped |-> FALSE,
   doc     |-> d]

ProcessEntryNoTokenCheck(p, blk, st) ==
  IF ~blk.hasContent THEN "noContent"
  ELSE IF ExtractUrl(p, blk) = Null THEN "noUrl"
  ELSE IF p # "youtube" /\ VideoIdOf(p, ExtractUrl(p, blk)) = Null THEN "noId"
  ELSE "fetch"

ProcessEntryNoUrlCheck(p, blk, st) ==
  IF ~blk.hasContent THEN "noContent"
  ELSE IF p = "vimeo" /\ ~Truthy(st.vimeoAccessToken) THEN "noToken"
  ELSE "fetch"

\* how far the synchronous prefix of process*Link gets
ProcessEntry(p, blk, st) ==
  IF ~blk.hasContent THEN "noContent"
  ELSE IF ExtractUrl(p, blk) = Null THEN "noUrl"
  ELSE IF p # "youtube" /\ VideoIdOf(p, ExtractUrl(p, blk)) = Null THEN "noId"
  ELSE IF p = "vimeo" /\ ~Truthy(st.vimeoAccessToken) THEN "noToken"
  ELSE "fetch"

\* how far processVideoLink gets before its first await
PipelineEntry(blk, arg, st) ==
  IF ~blk.exists THEN [platform |-> NoPlatform, reached |-> "noBlock"]
  ELSE LET Dispatch(p) ==
             IF p = NoPlatform THEN [platform |-> NoPlatform, reached |-> "noLink"]
             ELSE [platform |-> p, reached |-> ProcessEntry(p, blk, st)]
       IN  Dispatch(IF arg # NoPlatform THEN arg ELSE detectVideoPlatform(blk))

EntryNotesNoProgress(reached) ==
  CASE reached = "noLink" -> <<Note("error", "no supported video link", "")>>
    [] reached = "noToken" -> <<Note("error", "configure token", "")>>
    [] OTHER -> <<>>

\* the notifications emitted before the first await
EntryNotes(reached) ==
  CASE reached = "noLink" -> <<Note("error", "no supported video link", "")>>
    [] reached = "noToken" -> <<Note("error", "configure token", "")>>
    [] reached = "fetch" -> <<Note("info", "fetching", "")>>
    [] OTHER -> <<>>

MaxRuns == 2

NoHttp == [net |-> "none", status |-> 0, json |-> "none"]

VARIABLES block, settings, run, pc, platform, url, videoId, http, videoInfo,
          tagRef, pending, issued, applied, doc, doc0, notes, requests,
          outcome, escaped, succeeded, exBlock, exUrl, exOut,
          fxIn, fxOut, tagPc, tagFound, tagBlocks, tagLoads,
          dual, retry, paste, memo, race, life, cleanup, cache

vars == <<block, settings, run, pc, platform, url, videoId, http, videoInfo,
          tagRef, pending, issued, applied, doc, doc0, notes, requests,
          outcome, escaped, succeeded, exBlock, exUrl, exOut,
          fxIn, fxOut, tagPc, tagFound, tagBlocks, tagLoads,
          dual, retry, paste, memo, race, life, cleanup, cache>>

\* the listeners and timers of the multi-platform entry point, the clean-up
\* of creator blocks and the video-info cache of main.ts
utilVars == <<life, cleanup, cache>>

\* the state of the step-by-step runs: the dual call of getCompleteVideoInfo
\* and, in the single-platform main.ts, fetchWithRetry, the paste debounce,
\* the tag-initialization memo and two invocations on one block
mainVars == <<dual, retry, paste, memo, race, utilVars>>

\* the variables of the other specifications, which an invocation of the
\* pipeline leaves alone
exVars == <<exBlock, exUrl, exOut, fxIn, fxOut, tagPc, tagFound, tagBlocks, tagLoads, mainVars>>

\* the variables of an invocation of the pipeline
pipeVars == <<block, settings, run, pc, platform, url, videoId, http, videoInfo,
              tagRef, pending, issued, applied, doc, doc0, notes, requests,
              outcome, escaped, succeeded>>

NoOut == [op |-> "none", platform |-> NoPlatform, value |-> Null]

Idle ==
  /\ settings = Settings("unset", "unset", Null, Null)
  /\ run = 0
  /\ pc = "idle"
  /\ platform = NoPlatform
  /\ url = Null
  /\ videoId = Null
  /\ http = NoHttp
  /\ videoInfo = NoInfo
  /\ tagRef = FALSE
  /\ pending = "none"
  /\ issued = <<>>
  /\ applied = <<>>
  /\ doc = EmptyDoc
  /\ doc0 = EmptyDoc
  /\ notes = <<>>
  /\ requests = 0
  /\ outcome = "none"
  /\ escaped = FALSE
  /\ succeeded = 0

\* the parts of the state that a specification other than `used` owns are
\* at rest
Quiet(used) ==
  /\ IF used = "pipeline" THEN TRUE ELSE block = NoBlock /\ Idle
  /\ IF used = "matchers" THEN TRUE
     ELSE exBlock = NoBlock /\ exUrl = Null /\ exOut = NoOut
  /\ IF used = "fetchers" THEN TRUE
     ELSE fxIn = [fetcher |-> "none"] /\ fxOut = [fetcher |-> "none"]
  /\ IF used = "tags" THEN TRUE
     ELSE /\ tagPc = [p \in Platforms |-> "idle"]
          /\ tagFound = [p \in Platforms |-> FALSE]
          /\ tagBlocks = [p \in Platforms |-> 0]
          /\ tagLoads = 0
  /\ IF used = "fetchers" THEN TRUE ELSE dual = [pc |-> "idle"]
  /\ IF used = "retry" THEN TRUE ELSE retry = [pc |-> "idle"]
  /\ IF used = "paste" THEN TRUE ELSE paste = [pc |-> "idle"]
  /\ IF used = "memo" THEN TRUE ELSE memo = [pc |-> "idle"]
  /\ IF used = "race" THEN TRUE ELSE race = [pc |-> "idle"]
  /\ IF used = "life" THEN TRUE ELSE life = [pc |-> "idle"]
  /\ IF used = "cleanup" THEN TRUE ELSE cleanup = [pc |-> "idle"]
  /\ IF used = "cache" THEN TRUE ELSE cache = [pc |-> "idle"]

Init ==
  /\ block \in PipelineBlocks
  /\ Idle
  /\ Quiet("pipeline")

\* processVideoLink(blockId, pluginName, platform?) up to its first await
Start ==
  /\ pc \in {"idle", "done"}
  /\ run < MaxRuns
  /\ \E st \in SampleSettings, arg \in {NoPlatform} \cup Platforms :
       \E entry \in {PipelineEntry(block, arg, st)} :
       \E u \in {IF entry.reached \in {"noId", "noToken", "fetch"}
                  THEN ExtractUrl(entry.platform, block) ELSE Null} :
           /\ settings' = st
           /\ platform' = entry.platform
           /\ url' = u
           /\ videoId' = IF entry.reached \in {"noToken", "fetch"}
                         THEN VideoIdOf(entry.platform, u) ELSE Null
           /\ pc' = IF entry.reached = "fetch" THEN "fetch" ELSE "done"
           /\ pending' = IF entry.reached = "fetch" THEN "fetch" ELSE "none"
           /\ issued' = IF entry.reached = "fetch" THEN <<"fetch">> ELSE <<>>
           /\ outcome' = IF entry.reached = "fetch" THEN "running" ELSE entry.reached
           /\ notes' = EntryNotes(entry.reached)
           /\ requests' = IF entry.reached # "fetch" THEN 0
                          ELSE IF entry.platform = "bilibili" THEN 2 ELSE 1
  /\ run' = run + 1
  /\ http' = NoHttp
  /\ videoInfo' = NoInfo
  /\ tagRef' = FALSE
  /\ applied' = <<>>
  /\ doc0' = doc
  /\ escaped' = FALSE
  /\ UNCHANGED <<block, doc, succeeded, exVars>>

\* the fetcher's promise settles and process*Link runs on to its next await
FetchSettle ==
  /\ pc = "fetch"
  /\ \E f \in FetchOutcomes(platform, url, settings) :
       /\ http' = [net |-> f.http.net, status |-> f.http.status, json |-> f.http.json]
       /\ requests' = f.out.requests
       /\ IF f.out.threw
          THEN \E c \in {CatchHandler(platform, f.out.msg, notes, doc, doc0)} :
                   /\ notes' = c.notes
                   /\ escaped' = c.escaped
                   /\ doc' = c.doc
                   /\ pc' = "done"
                   /\ pending' = "none"
                   /\ outcome' = "fetchThrew"
                   /\ UNCHANGED <<videoInfo, issued, applied>>
          ELSE IF ~Truthy(CoverOf(platform, f.out.info))
          THEN /\ notes' = Append(notes, Note("error", "fetch failed", ""))
               /\ videoInfo' = f.out.info
               /\ pc' = "done"
               /\ pending' = "none"
               /\ outcome' = "fetchFailed"
               /\ applied' = Append(applied, "fetch")
               /\ UNCHANGED <<escaped, doc, issued>>
          ELSE \E nxt \in {NextStage("fetch", platform, settings, f.out.info, FALSE)} :
                   /\ videoInfo' = f.out.info
                   /\ pc' = "host"
                   /\ pending' = nxt
                   /\ issued' = Append(issued, nxt)
                   /\ applied' = Append(applied, "fetch")
                   /\ UNCHANGED <<notes, escaped, doc, outcome>>
  /\ UNCHANGED <<block, settings, run, platform, url, videoId, tagRef, doc0, succeeded, exVars>>

\* the pending host command resolves (ok) or rejects, and process*Link runs
\* on to its next await or to its end; found is whether the re-read of the
\* block after insertTag finds the tag reference
HostSettle ==
  /\ pc = "host"
  /\ \E ok \in BOOLEAN, found \in (IF pending = "insertTag" THEN BOOLEAN ELSE {tagRef}) :
       IF ~ok
       THEN \E c \in {CatchHandler(platform, "host command rejected", notes, doc, doc0)} :
                /\ notes' = c.notes
                /\ escaped' = c.escaped
                /\ doc' = c.doc
                /\ pc' = "done"
                /\ pending' = "none"
                /\ outcome' = "hostRejected"
                /\ UNCHANGED <<tagRef, issued, applied, succeeded>>
       ELSE \E nxt \in {NextStage(pending, platform, settings, videoInfo, found)} :
                /\ doc' = ApplyStage(pending, doc, platform, videoInfo, url)
                /\ tagRef' = found
                /\ applied' = Append(applied, pending)
                /\ IF nxt = "notifySuccess"
                   THEN /\ notes' = Append(notes, Note("success", "extracted", ""))
                        /\ pc' = "done"
                        /\ pending' = "none"
                        /\ outcome' = "success"
                        /\ succeeded' = succeeded + 1
                        /\ UNCHANGED <<issued, escaped>>
                   ELSE /\ pending' = nxt
                        /\ issued' = Append(issued, nxt)
                        /\ UNCHANGED <<notes, pc, outcome, escaped, succeeded>>
  /\ UNCHANGED <<block, settings, run, platform, url, videoId, http, videoInfo,
                 requests, doc0, exVars>>

Next == Start \/ FetchSettle \/ HostSettle

Spec == Init /\ [][Next]_vars

\* ------------------------------------------------------------------------
\* The link matchers and the detector applied to sample inputs
\* ------------------------------------------------------------------------

MaxFragments == 2

U_vimeoHttp == <<"h","t","t","p",":","/","/","w","w","w",".","v","i","m","e","o",".","c","o","m","/","1","2">>

SampleFragments ==
  { Text(T_plain), Text(<<"7">>),
    Text(U_bv), Text(U_watch), Text(U_vimeo),
    Link(U_av, T_plain), Link(U_bv, T_plain),
    Link(U_shorts, Null),
    Link(U_vimeoHttp, U_vimeo),
    Link(U_other, U_bv) }

SampleBlocks ==
  {NoBlock, NoContent}
    \cup {Block(c) : c \in UNION {[1..n -> SampleFragments] : n \in 0..MaxFragments}}

SampleUrls ==
  { U_bv, U_av, U_avabc, U_watch, U_shorts, U_vimeo, U_vimeoHttp, U_other,
    T_plain, <<>>, T_plain \o U_bv }

ExtractUrlOf(p, blk) ==
  CASE p = "bilibili" -> extractBilibiliUrl(blk)
    [] p = "youtube" -> extractYouTubeUrl(blk)
    [] p = "vimeo" -> extractVimeoUrl(blk)

ExtractIdOf(p, u) ==
  CASE p = "bilibili" -> extractVideoId(u)
    [] p = "youtube" -> extractYouTubeVideoId(u)
    [] p = "vimeo" -> extractVimeoVideoId(u)

InitExtract ==
  /\ Quiet("matchers")
  /\ \/ exBlock \in SampleBlocks /\ exUrl = Null
     \/ exBlock = NoBlock /\ exUrl \in SampleUrls
  /\ exOut = NoOut

\* detectVideoPlatform(block)
DetectPlatform ==
  /\ exUrl = Null
  /\ exOut' = [op |-> "detect", platform |-> detectVideoPlatform(exBlock), value |-> Null]
  /\ UNCHANGED <<pipeVars, mainVars, exBlock, exUrl, fxIn, fxOut, tagPc, tagFound, tagBlocks, tagLoads>>

\* extractBilibiliUrl(block) / extractYouTubeUrl(block) / extractVimeoUrl(block)
ExtractBlockUrl ==
  /\ exUrl = Null
  /\ \E p \in Platforms :
       exOut' = [op |-> "extractUrl", platform |-> p, value |-> ExtractUrlOf(p, exBlock)]
  /\ UNCHANGED <<pipeVars, mainVars, exBlock, exUrl, fxIn, fxOut, tagPc, tagFound, tagBlocks, tagLoads>>

\* extractVideoId(url) / extractYouTubeVideoId(url) / extractVimeoVideoId(url)
ExtractUrlId ==
  /\ exUrl # Null
  /\ \E p \in Platforms :
       exOut' = [op |-> "extractId", platform |-> p, value |-> ExtractIdOf(p, exUrl)]
  /\ UNCHANGED <<pipeVars, mainVars, exBlock, exUrl, fxIn, fxOut, tagPc, tagFound, tagBlocks, tagLoads>>

\* handlePaste(event) of createPasteHandler with the pasted text exUrl
PasteText ==
  /\ exUrl # Null
  /\ exOut' = [op |-> "paste", platform |-> NoPlatform,
               value |-> IF hasVideo(exUrl) THEN <<"setTimeout">> ELSE Null]
  /\ UNCHANGED <<pipeVars, mainVars, exBlock, exUrl, fxIn, fxOut, tagPc, tagFound, tagBlocks, tagLoads>>

NextExtract == DetectPlatform \/ ExtractBlockUrl \/ ExtractUrlId \/ PasteText

SpecExtract == InitExtract /\ [][NextExtract]_vars

\* ------------------------------------------------------------------------
\* The bilibili and YouTube fetchers applied to sample exchanges
\* ------------------------------------------------------------------------

\* view payloads with code 0 and a data object holding each subset of
\* pic, title, owner.name and pubdate
FieldSubsetViews ==
  { Http("ok", 200, "ok",
         ViewBody(0, TRUE,
                  IF "pic" \in present THEN Cover1 ELSE Null,
                  IF "owner" \in present THEN Author1 ELSE Null,
                  IF "title" \in present THEN Title1 ELSE Null,
                  IF "pubdate" \in present THEN 1640995200 ELSE 0)) :
      present \in SUBSET {"pic", "owner", "title", "pubdate"} }

MaxSizes == 3

\* pictures.sizes lists of up to MaxSizes candidates, each with its own link
SampleSizes ==
  { [k \in DOMAIN w |-> [width |-> w[k], link |-> <<"p", DigitChars[k + 1]>>]] :
      w \in UNION { [1..n -> {100, 640, 1280}] : n \in 0..MaxSizes } }

\* pubdate values: both ends of days at month, leap-day and year boundaries,
\* and the largest 32-bit number of seconds
SamplePubdates ==
  { d * 86400 + s : d \in {0, 1, 58, 59, 365, 11015, 11016, 11017, 18627, 18628}
                           \cup (19722..19790),
                    s \in {0, 86399} } \cup {2147483647}

InitFetch ==
  /\ Quiet("fetchers")
  /\ dual = [pc |-> "idle"]
  /\ fxOut = [fetcher |-> "none"]
  /\ \/ \E v \in BilibiliViewResponses \cup FieldSubsetViews
                  \cup { Http("ok", 200, "ok", ViewBody(0, FALSE, Null, Null, Null, 0)),
                         Http("ok", 200, "ok", ViewBody(-400, TRUE, Cover1, Author1, Title1, 1640995200)),
                         Http("ok", 500, "ok", ViewBody(0, TRUE, Cover1, Author1, Title1, 1640995200)) }
                  \cup { Http("ok", 200, "ok", ViewBody(0, TRUE, Cover1, Null, Null, t)) :
                           t \in SamplePubdates },
           g \in BilibiliTagsResponses
                  \cup { Http("ok", 500, "ok", TagsBody(0, TRUE, << <<"a">> >>)),
                         Http("ok", 200, "ok", TagsBody(-400, FALSE, <<>>)) } :
          fxIn = [fetcher |-> "bilibili", view |-> v, tags |-> g]
     \/ \E u \in {U_watch, U_other}, k \in {Null, <<>>, <<"k">>},
           a \in YouTubeApiResponses
                  \cup { Http("ok", 200, "ok",
                               ApiBody(TRUE, Author1, 1640995200,
                                       IF "high" \in tiers THEN Cover1 ELSE Null,
                                       IF "medium" \in tiers THEN <<"c","2">> ELSE Null,
                                       IF "default" \in tiers THEN <<"c","3">> ELSE Null,
                                       <<>>)) :
                           tiers \in SUBSET {"high", "medium", "default"} },
           o \in YouTubeOembedResponses :
          fxIn = [fetcher |-> "youtube", url |-> u, key |-> k, api |-> a, oembed |-> o]
     \/ \E a \in VimeoApiResponses
                  \cup { Http("ok", 200, "ok",
                               VimeoBody(sizes, 0, 0, <<"e","2">>, Null, Null, <<>>)) :
                           sizes \in SampleSizes },
           o \in VimeoOembedResponses :
          fxIn = [fetcher |-> "vimeo", url |-> U_vimeo, api |-> a, oembed |-> o]

\* getVideoInfo(videoId)
CallGetVideoInfo ==
  /\ fxIn.fetcher = "bilibili"
  /\ fxOut' = [fetcher |-> "getVideoInfo", info |-> getVideoInfo(fxIn.view)]
  /\ UNCHANGED <<pipeVars, mainVars, exBlock, exUrl, exOut, fxIn, tagPc, tagFound, tagBlocks, tagLoads>>

\* getCompleteVideoInfo(videoId)
CallGetCompleteVideoInfo ==
  /\ fxIn.fetcher = "bilibili"
  /\ fxOut' = [fetcher |-> "getCompleteVideoInfo",
               out |-> getCompleteVideoInfo(fxIn.view, fxIn.tags)]
  /\ UNCHANGED <<pipeVars, mainVars, exBlock, exUrl, exOut, fxIn, tagPc, tagFound, tagBlocks, tagLoads>>

\* getYouTubeVideoInfo(videoUrl, apiKey)
CallGetYouTubeVideoInfo ==
  /\ fxIn.fetcher = "youtube"
  /\ fxOut' = [fetcher |-> "getYouTubeVideoInfo",
               out |-> getYouTubeVideoInfo(fxIn.url, fxIn.key, fxIn.api, fxIn.oembed),
               calls |-> YouTubeRequests(fxIn.url, fxIn.key)]
  /\ UNCHANGED <<pipeVars, mainVars, exBlock, exUrl, exOut, fxIn, tagPc, tagFound, tagBlocks, tagLoads>>

\* getVimeoVideoInfo(videoId, accessToken, videoUrl)
CallGetVimeoVideoInfo ==
  /\ fxIn.fetcher = "vimeo"
  /\ fxOut' = [fetcher |-> "getVimeoVideoInfo",
               out |-> getVimeoVideoInfo(fxIn.url, fxIn.api, fxIn.oembed)]
  /\ UNCHANGED <<pipeVars, mainVars, exBlock, exUrl, exOut, fxIn, tagPc, tagFound, tagBlocks, tagLoads>>

DualStepSequential(d, ev, viewResp, tagsResp) ==
  CASE ev = "call" ->
         [pc |-> "waiting", issued |-> <<"view">>, arrived |-> <<>>,
          info |-> NoInfo, tags |-> <<>>, result |-> NoInfo]
    [] ev = "view" ->
         [d EXCEPT !.issued = Append(@, "tags"),
                   !.arrived = Append(@, "view"),
                   !.info = getVideoInfo(viewResp)]
    [] ev = "tags" ->
         [d EXCEPT !.pc = "resolved",
                   !.arrived = Append(@, "tags"),
                   !.tags = getVideoTags(tagsResp),
                   !.result = [d.info EXCEPT !.tags = getVideoTags(tagsResp)]]

\* getCompleteVideoInfo step by step.  "call": Promise.all([getVideoInfo(id),
\* getVideoTags(id)]) runs each function up to its fetch, in that order;
\* "view" / "tags": that function's promise settles, and once both have,
\* Promise.all resolves and {...info, tags} is returned
DualStep(d, ev, viewResp, tagsResp) ==
  CASE ev = "call" ->
         [pc |-> "waiting", issued |-> <<"view", "tags">>, arrived |-> <<>>,
          info |-> NoInfo, tags |-> <<>>, result |-> NoInfo]
    [] ev = "view" ->
         [d EXCEPT !.pc = IF d.arrived = <<>> THEN "waiting" ELSE "resolved",
                   !.arrived = Append(@, "view"),
                   !.info = getVideoInfo(viewResp),
                   !.result = IF d.arrived = <<>> THEN NoInfo
                              ELSE [getVideoInfo(viewResp) EXCEPT !.tags = d.tags]]
    [] ev = "tags" ->
         [d EXCEPT !.pc = IF d.arrived = <<>> THEN "waiting" ELSE "resolved",
                   !.arrived = Append(@, "tags"),
                   !.tags = getVideoTags(tagsResp),
                   !.result = IF d.arrived = <<>> THEN NoInfo
                              ELSE [d.info EXCEPT !.tags = getVideoTags(tagsResp)]]

\* getCompleteVideoInfo(videoId) is called
DualCall ==
  /\ fxIn.fetcher = "bilibili"
  /\ dual.pc = "idle"
  /\ dual' = DualStep(dual, "call", fxIn.view, fxIn.tags)
  /\ UNCHANGED <<pipeVars, exBlock, exUrl, exOut, fxIn, fxOut, tagPc, tagFound,
                 tagBlocks, tagLoads, retry, paste, memo, race, utilVars>>

\* the promise of getVideoInfo ("view") or of getVideoTags ("tags") settles
DualSettle(ev) ==
  /\ dual.pc = "waiting"
  /\ \E k \in 1..Len(dual.issued) : dual.issued[k] = ev
  /\ \A k \in 1..Len(dual.arrived) : dual.arrived[k] # ev
  /\ dual' = DualStep(dual, ev, fxIn.view, fxIn.tags)
  /\ UNCHANGED <<pipeVars, exBlock, exUrl, exOut, fxIn, fxOut, tagPc, tagFound,
                 tagBlocks, tagLoads, retry, paste, memo, race, utilVars>>

NextFetch ==
  \/ DualCall
  \/ \E ev \in {"view", "tags"} : DualSettle(ev)
  \/ CallGetVideoInfo
  \/ CallGetCompleteVideoInfo
  \/ CallGetYouTubeVideoInfo
  \/ CallGetVimeoVideoInfo

SpecFetch == InitFetch /\ [][NextFetch]_vars

\* ------------------------------------------------------------------------
\* Plugin load: the three initialize*Tag functions
\* ------------------------------------------------------------------------

MaxLoads == 2

\* tagFound[p]: some block of the document carries the alias of p;
\* tagBlocks[p]: the blocks initialize*Tag has created for p
InitTagInit ==
  /\ Quiet("tags")
  /\ tagPc = [p \in Platforms |-> "idle"]
  /\ tagFound = [p \in Platforms |-> FALSE]
  /\ tagBlocks = [p \in Platforms |-> 0]
  /\ tagLoads = 0

\* load(): Promise.all of the three initializers, each up to its first await
Load ==
  /\ tagLoads < MaxLoads
  /\ \A p \in Platforms : tagPc[p] \in {"idle", "done"}
  /\ tagLoads' = tagLoads + 1
  /\ tagPc' = [p \in Platforms |-> "lookup"]
  /\ UNCHANGED <<pipeVars, mainVars, exBlock, exUrl, exOut, fxIn, fxOut, tagFound, tagBlocks>>

\* invokeBackend('get-blockid-by-alias', alias) settles
TagLookup(p) ==
  /\ tagPc[p] = "lookup"
  /\ \E ok \in BOOLEAN :
       tagPc' = [tagPc EXCEPT ![p] = IF ~ok THEN "done"
                                     ELSE IF tagFound[p] THEN "setProperties"
                                     ELSE "insertBlock"]
  /\ UNCHANGED <<pipeVars, mainVars, exBlock, exUrl, exOut, fxIn, fxOut, tagFound, tagBlocks, tagLoads>>

\* core.editor.insertBlock of a text block holding the alias as text settles
TagInsertBlock(p) ==
  /\ tagPc[p] = "insertBlock"
  /\ \E ok \in BOOLEAN :
       /\ tagPc' = [tagPc EXCEPT ![p] = IF ok THEN "setProperties" ELSE "done"]
       /\ tagBlocks' = [tagBlocks EXCEPT ![p] = IF ok THEN @ + 1 ELSE @]
  /\ UNCHANGED <<pipeVars, mainVars, exBlock, exUrl, exOut, fxIn, fxOut, tagFound, tagLoads>>

\* core.editor.setProperties settles, resolved or rejected (caught)
TagSetProperties(p) ==
  /\ tagPc[p] = "setProperties"
  /\ tagPc' = [tagPc EXCEPT ![p] = "done"]
  /\ UNCHANGED <<pipeVars, mainVars, exBlock, exUrl, exOut, fxIn, fxOut, tagFound, tagBlocks, tagLoads>>

\* a block of the document is given the alias: core.editor.insertTag of
\* process*Link, or the user creating the tag
AliasAppears(p) ==
  /\ ~tagFound[p]
  /\ tagFound' = [tagFound EXCEPT ![p] = TRUE]
  /\ UNCHANGED <<pipeVars, mainVars, exBlock, exUrl, exOut, fxIn, fxOut, tagPc, tagBlocks, tagLoads>>

NextTagInit ==
  \/ Load
  \/ \E p \in Platforms : TagLookup(p)
  \/ \E p \in Platforms : TagInsertBlock(p)
  \/ \E p \in Platforms : TagSetProperties(p)
  \/ \E p \in Platforms : AliasAppears(p)

SpecTagInit == InitTagInit /\ [][NextTagInit]_vars

\* ------------------------------------------------------------------------
\* main.ts: fetchWithRetry
\* ------------------------------------------------------------------------

\* NETWORK_CONFIG.retryAttempts
RetryAttempts == 3

\* what one attempt can end in: fetch rejects (network error, or the abort
\* of the timeout timer) or resolves to a response, ok or not
AttemptOutcomes ==
  { [kind |-> "networkError", status |-> 0], [kind |-> "timeout", status |-> 0],
    [kind |-> "response", status |-> 200], [kind |-> "response", status |-> 404],
    [kind |-> "response", status |-> 500] }

RetryStepRetriesNonOk(r, o) ==
  IF o.kind = "response" /\ o.status = 200
  THEN [r EXCEPT !.pc = "returned", !.attempts = Append(@, o), !.result = o,
                 !.timers = @ - 1]
  ELSE IF r.i = r.retries - 1
  THEN [r EXCEPT !.pc = "threw", !.attempts = Append(@, o), !.result = o,
                 !.timers = IF o.kind = "networkError" THEN @ ELSE @ - 1]
  ELSE [r EXCEPT !.pc = "waiting", !.attempts = Append(@, o), !.waits = @ + 1,
                 !.timers = IF o.kind = "networkError" THEN @ ELSE @ - 1]

\* the body of the for loop once the fetch of attempt i has settled with o:
\* a response is returned after clearTimeout; a rejection is rethrown when
\* i === retries - 1 and otherwise followed by the retryDelay wait.  timers
\* counts the pending abort timers: the catch block clears none, and the
\* timer of an aborted attempt has already fired
RetryStep(r, o) ==
  IF o.kind = "response"
  THEN [r EXCEPT !.pc = "returned", !.attempts = Append(@, o), !.result = o,
                 !.timers = @ - 1]
  ELSE IF r.i = r.retries - 1
  THEN [r EXCEPT !.pc = "threw", !.attempts = Append(@, o), !.result = o,
                 !.timers = IF o.kind = "timeout" THEN @ - 1 ELSE @]
  ELSE [r EXCEPT !.pc = "waiting", !.attempts = Append(@, o), !.waits = @ + 1,
                 !.timers = IF o.kind = "timeout" THEN @ - 1 ELSE @]

InitRetry ==
  /\ Quiet("retry")
  /\ \E n \in 0..RetryAttempts :
       retry = [pc |-> "idle", retries |-> n, i |-> 0, attempts |-> <<>>, waits |-> 0,
                timers |-> 0, result |-> [kind |-> "none", status |-> 0]]

\* fetchWithRetry(url, options, retries) up to its first await
RetryCall ==
  /\ retry.pc = "idle"
  /\ retry' = IF retry.retries = 0
              THEN [retry EXCEPT !.pc = "threw", !.result = [kind |-> "noAttempt", status |-> 0]]
              ELSE [retry EXCEPT !.pc = "fetching", !.timers = 1]
  /\ UNCHANGED <<pipeVars, exBlock, exUrl, exOut, fxIn, fxOut, tagPc, tagFound,
                 tagBlocks, tagLoads, dual, paste, memo, race, utilVars>>

\* the fetch of the current attempt settles
RetryAttemptSettles ==
  /\ retry.pc = "fetching"
  /\ \E o \in AttemptOutcomes : retry' = RetryStep(retry, o)
  /\ UNCHANGED <<pipeVars, exBlock, exUrl, exOut, fxIn, fxOut, tagPc, tagFound,
                 tagBlocks, tagLoads, dual, paste, memo, race, utilVars>>

\* the retryDelay timer fires: i++, and the next attempt sets its abort timer
\* and issues its fetch
RetryDelayElapses ==
  /\ retry.pc = "waiting"
  /\ retry' = [retry EXCEPT !.pc = "fetching", !.i = @ + 1, !.timers = @ + 1]
  /\ UNCHANGED <<pipeVars, exBlock, exUrl, exOut, fxIn, fxOut, tagPc, tagFound,
                 tagBlocks, tagLoads, dual, paste, memo, race, utilVars>>

\* the abort timer of an attempt that has already failed fires: no effect
AbortTimerFires ==
  /\ retry.timers > (IF retry.pc = "fetching" THEN 1 ELSE 0)
  /\ retry' = [retry EXCEPT !.timers = @ - 1]
  /\ UNCHANGED <<pipeVars, exBlock, exUrl, exOut, fxIn, fxOut, tagPc, tagFound,
                 tagBlocks, tagLoads, dual, paste, memo, race, utilVars>>

NextRetry == RetryCall \/ RetryAttemptSettles \/ RetryDelayElapses \/ AbortTimerFires

\* every fetch settles (the abort timer rejects it after the timeout at the
\* latest) and every retryDelay timer fires
SpecRetry ==
  /\ InitRetry
  /\ [][NextRetry]_vars
  /\ WF_vars(RetryAttemptSettles)
  /\ WF_vars(RetryDelayElapses)

\* ------------------------------------------------------------------------
\* main.ts: handlePaste and its debounce timer
\* ------------------------------------------------------------------------

\* DELAY_CONFIG.debounceDelay (300 ms), in clock ticks of 100 ms
DebounceTicks == 3

MaxPastes == 3

MaxClock == 7

HandlePasteNoClear(p, matches) ==
  IF ~matches THEN p
  ELSE [p EXCEPT !.timers = @ \cup {[id |-> p.nextId, due |-> p.now + DebounceTicks]},
                 !.debounceTimer = p.nextId,
                 !.nextId = @ + 1,
                 !.events = @ + 1,
                 !.lastEvent = p.now,
                 !.bursts = IF p.lastEvent < 0 \/ p.now - p.lastEvent >= DebounceTicks
                            THEN @ + 1 ELSE @,
                 !.tie = @ \/ (p.lastEvent >= 0 /\ p.now - p.lastEvent = DebounceTicks
                                /\ p.timers # {})]

\* handlePaste(event): a text that does not match BILIBILI_URL_REGEX returns
\* at once; otherwise clearTimeout(debounceTimer) and a new timer.  timers
\* are the pending timers of the host, debounceTimer the id held by the
\* module (0 for null); events, lastEvent, bursts and tie record the history:
\* a burst starts with an event that comes debounceDelay or more after the
\* previous one, and tie marks an event that came exactly debounceDelay
\* after the previous one while that one's timer had not fired yet
HandlePaste(p, matches) ==
  IF ~matches THEN p
  ELSE [p EXCEPT !.timers = {tm \in @ : tm.id # p.debounceTimer}
                              \cup {[id |-> p.nextId, due |-> p.now + DebounceTicks]},
                 !.debounceTimer = p.nextId,
                 !.nextId = @ + 1,
                 !.events = @ + 1,
                 !.lastEvent = p.now,
                 !.bursts = IF p.lastEvent < 0 \/ p.now - p.lastEvent >= DebounceTicks
                            THEN @ + 1 ELSE @,
                 !.tie = @ \/ (p.lastEvent >= 0 /\ p.now - p.lastEvent = DebounceTicks
                                /\ p.timers # {})]

\* cursor: the block of the selection anchor, 0 when there is none
InitPaste ==
  /\ Quiet("paste")
  /\ \E c \in 0..2 :
       paste = [pc |-> "listening", now |-> 0, timers |-> {}, debounceTimer |-> 0,
                nextId |-> 1, events |-> 0, lastEvent |-> -1, bursts |-> 0, tie |-> FALSE,
                cursor |-> c, fired |-> <<>>, started |-> <<>>]

\* a paste event is dispatched to handlePaste
PasteEvent ==
  /\ paste.events < MaxPastes
  /\ \E matches \in BOOLEAN : paste' = HandlePaste(paste, matches)
  /\ UNCHANGED <<pipeVars, exBlock, exUrl, exOut, fxIn, fxOut, tagPc, tagFound,
                 tagBlocks, tagLoads, dual, retry, memo, race, utilVars>>

\* 100 ms pass; a timer that is due fires before more time passes
Tick ==
  /\ paste.now < MaxClock
  /\ \A tm \in paste.timers : tm.due > paste.now
  /\ paste' = [paste EXCEPT !.now = @ + 1]
  /\ UNCHANGED <<pipeVars, exBlock, exUrl, exOut, fxIn, fxOut, tagPc, tagFound,
                 tagBlocks, tagLoads, dual, retry, memo, race, utilVars>>

\* the debounce callback runs up to its await: it reads the cursor and, when
\* there is an anchor, calls processBilibiliLink(cursor.anchor.blockId)
DebounceFires ==
  /\ \E tm \in paste.timers :
       /\ tm.due <= paste.now
       /\ paste' = [paste EXCEPT
                      !.timers = @ \ {tm},
                      !.fired = Append(@, [at |-> paste.now, lastEvent |-> paste.lastEvent,
                                           block |-> paste.cursor]),
                      !.started = IF paste.cursor # 0 THEN Append(@, paste.cursor) ELSE @]
  /\ UNCHANGED <<pipeVars, exBlock, exUrl, exOut, fxIn, fxOut, tagPc, tagFound,
                 tagBlocks, tagLoads, dual, retry, memo, race, utilVars>>

\* the user moves the cursor to another block, or the selection is lost
CursorMoves ==
  /\ \E c \in 0..2 : c # paste.cursor /\ paste' = [paste EXCEPT !.cursor = c]
  /\ UNCHANGED <<pipeVars, exBlock, exUrl, exOut, fxIn, fxOut, tagPc, tagFound,
                 tagBlocks, tagLoads, dual, retry, memo, race, utilVars>>

NextPaste == PasteEvent \/ Tick \/ DebounceFires \/ CursorMoves

SpecPaste == InitPaste /\ [][NextPaste]_vars

\* ------------------------------------------------------------------------
\* main.ts: initializeBilibiliTag, its memo tagInitialized, load and unload
\* ------------------------------------------------------------------------

MaxInits == 3

MaxUnloads == 2

\* one await of run k of initializeBilibiliTag settles; ok is whether the
\* host call resolved, found whether get-blockid-by-alias returned an id.
\* A rejection is caught and leaves tagInitialized alone; the resolved
\* setProperties is followed by tagInitialized = true
InitTagStep(m, k, ok, found) ==
  LET r == m.runs[k]
  IN  IF ~ok THEN [m EXCEPT !.runs[k].pc = "failed"]
      ELSE IF r.pc = "lookup"
      THEN IF found
           THEN [m EXCEPT !.runs[k].pc = "setProperties", !.runs[k].calls = @ + 1]
           ELSE [m EXCEPT !.runs[k].pc = "insertBlock", !.runs[k].calls = @ + 1]
      ELSE IF r.pc = "insertBlock"
      THEN [m EXCEPT !.runs[k].pc = "setProperties", !.runs[k].calls = @ + 1,
                     !.runs[k].createdBlock = TRUE,
                     !.created = @ + 1]
      ELSE [m EXCEPT !.runs[k].pc = "done",
                     !.tagInitialized = TRUE,
                     !.completedSince = TRUE]

\* tagInitialized is the module variable; runs are the calls of
\* initializeBilibiliTag made so far, each with its position, the number of
\* host calls it has issued (calls), whether it was the first call after an
\* unload (fresh), the calls that were suspended at an await when it started
\* (overlaps) and whether it inserted a tag block; unloaded holds from an unload to the next load;
\* completedSince records a successful completion since the last unload;
\* created counts the tag blocks inserted
InitMemo ==
  /\ Quiet("memo")
  /\ memo = [pc |-> "live", tagInitialized |-> FALSE, runs |-> <<>>, unloads |-> 0,
             unloaded |-> FALSE, completedSince |-> FALSE, created |-> 0]

\* load(): await initializeBilibiliTag(), up to its first await
MemoLoad ==
  /\ memo.pc = "live"
  /\ Len(memo.runs) < MaxInits
  /\ memo' = [memo EXCEPT
                !.runs = Append(@, [pc |-> IF memo.tagInitialized THEN "skipped" ELSE "lookup",
                                    calls |-> IF memo.tagInitialized THEN 0 ELSE 1,
                                    fresh |-> memo.unloaded,
                                    overlaps |-> {j \in 1..Len(memo.runs) :
                                                   memo.runs[j].pc \in {"lookup", "insertBlock",
                                                                        "setProperties"}},
                                    createdBlock |-> FALSE]),
                !.unloaded = FALSE]
  /\ UNCHANGED <<pipeVars, exBlock, exUrl, exOut, fxIn, fxOut, tagPc, tagFound,
                 tagBlocks, tagLoads, dual, retry, paste, race, utilVars>>

\* the host call a run is waiting for resolves or rejects
MemoSettle ==
  /\ memo.pc = "live"
  /\ \E k \in 1..Len(memo.runs) :
       /\ memo.runs[k].pc \in {"lookup", "insertBlock", "setProperties"}
       /\ \E ok \in BOOLEAN, found \in BOOLEAN : memo' = InitTagStep(memo, k, ok, found)
  /\ UNCHANGED <<pipeVars, exBlock, exUrl, exOut, fxIn, fxOut, tagPc, tagFound,
                 tagBlocks, tagLoads, dual, retry, paste, race, utilVars>>

\* unload(): tagInitialized = false; a run suspended at an await is not
\* touched
MemoUnload ==
  /\ memo.pc = "live"
  /\ memo.runs # <<>>
  /\ ~memo.unloaded
  /\ memo.unloads < MaxUnloads
  /\ memo' = [memo EXCEPT !.tagInitialized = FALSE, !.completedSince = FALSE,
                          !.unloaded = TRUE, !.unloads = @ + 1]
  /\ UNCHANGED <<pipeVars, exBlock, exUrl, exOut, fxIn, fxOut, tagPc, tagFound,
                 tagBlocks, tagLoads, dual, retry, paste, race, utilVars>>

NextMemo == MemoLoad \/ MemoSettle \/ MemoUnload

SpecMemo == InitMemo /\ [][NextMemo]_vars

\* ------------------------------------------------------------------------
\* main.ts: processBilibiliLink with hasExistingCover, two invocations on
\* one block
\* ------------------------------------------------------------------------

RaceCovers == {<<"c", "1">>, <<"c", "2">>}

Invocations == 1..2

\* hasExistingCover(block, coverUrl): a content fragment with t === 'image'
\* and src === coverUrl in the block or, recursively, in a child read from
\* orca.state.blocks; a block without content gives false.  The blocks of
\* the model have children one level deep
hasExistingCover(b, coverUrl) ==
  \/ \E i \in DOMAIN b.content :
       b.content[i].t = "image" /\ b.content[i].src = coverUrl
  \/ \E c \in DOMAIN b.children :
       \E i \in DOMAIN b.children[c].content :
         b.children[c].content[i].t = "image" /\ b.children[c].content[i].src = coverUrl

\* core.editor.insertBlock(null, block, "lastChild", null, imageRepr): the
\* new last child has the repr {type: "image", src}.  Its content is the
\* one it was given (none), unless the host is one that shows the image of
\* a repr as a content fragment as well (mirrors)
InsertImageChild(b, coverUrl, mirrors) ==
  [b EXCEPT !.children =
     Append(@, [content |-> IF mirrors THEN <<[t |-> "image", src |-> coverUrl]>> ELSE <<>>,
                repr |-> [type |-> "image", src |-> coverUrl]])]

\* getVideoInfo resolved for invocation k with coverUrl (Null when the
\* fetch failed): the error notification, or the check of hasExistingCover
\* on the block as the host holds it now, and then either the skip or the
\* start of the DELAY_CONFIG.imageProcessing timer
AfterFetch(r, k, coverUrl) ==
  IF coverUrl = Null
  THEN [r EXCEPT !.inv[k].pc = "failed", !.inv[k].cover = coverUrl]
  ELSE IF hasExistingCover(r.block, coverUrl)
  THEN [r EXCEPT !.inv[k].pc = "skipped", !.inv[k].cover = coverUrl,
                 !.inv[k].checkedWith = Len(r.block.children)]
  ELSE [r EXCEPT !.inv[k].pc = "delay", !.inv[k].cover = coverUrl,
                 !.inv[k].checkedWith = Len(r.block.children)]

\* the block holds a link to the video and possibly an inline image fragment
\* of the cover; mirrors is the host's way of storing an image block; inv[k].after is the set of invocations that had ended when
\* invocation k started, checkedWith the number of children the block had
\* when k evaluated hasExistingCover (-1 before)
InitRace ==
  /\ Quiet("race")
  /\ \E inline \in {<<>>, <<[t |-> "image", src |-> <<"c", "1">>]>>}, mirrors \in BOOLEAN :
       race = [pc |-> "live", mirrors |-> mirrors,
               block |-> [content |-> <<[t |-> "l", src |-> Null]>> \o inline,
                          children |-> <<>>],
               inv |-> [k \in Invocations |->
                          [pc |-> "idle", cover |-> Null, after |-> {},
                           checkedWith |-> -1, inserted |-> FALSE]]]

RaceEnded(k) == race.inv[k].pc \in {"failed", "skipped", "threw", "done"}

\* processBilibiliLink(blockId) up to `await getVideoInfo(videoId)`
RaceStart ==
  /\ race.pc = "live"
  /\ \E k \in Invocations :
       /\ race.inv[k].pc = "idle"
       /\ race' = [race EXCEPT !.inv[k].pc = "fetching",
                               !.inv[k].after = {j \in Invocations : RaceEnded(j)}]
  /\ UNCHANGED <<pipeVars, exBlock, exUrl, exOut, fxIn, fxOut, tagPc, tagFound,
                 tagBlocks, tagLoads, dual, retry, paste, memo, utilVars>>

\* getVideoInfo settles (it never rejects)
RaceFetchSettles ==
  /\ race.pc = "live"
  /\ \E k \in Invocations, coverUrl \in RaceCovers \cup {Null} :
       /\ race.inv[k].pc = "fetching"
       /\ race' = AfterFetch(race, k, coverUrl)
  /\ UNCHANGED <<pipeVars, exBlock, exUrl, exOut, fxIn, fxOut, tagPc, tagFound,
                 tagBlocks, tagLoads, dual, retry, paste, memo, utilVars>>

\* the 500 ms timer fires and insertBlock is invoked
RaceDelayElapses ==
  /\ race.pc = "live"
  /\ \E k \in Invocations :
       /\ race.inv[k].pc = "delay"
       /\ race' = [race EXCEPT !.inv[k].pc = "inserting"]
  /\ UNCHANGED <<pipeVars, exBlock, exUrl, exOut, fxIn, fxOut, tagPc, tagFound,
                 tagBlocks, tagLoads, dual, retry, paste, memo, utilVars>>

\* insertBlock resolves with the child inserted, or rejects
RaceInsertSettles ==
  /\ race.pc = "live"
  /\ \E k \in Invocations, ok \in BOOLEAN :
       /\ race.inv[k].pc = "inserting"
       /\ race' = IF ok
                  THEN [race EXCEPT !.block = InsertImageChild(@, race.inv[k].cover, race.mirrors),
                                    !.inv[k].pc = "tagging",
                                    !.inv[k].inserted = TRUE]
                  ELSE [race EXCEPT !.inv[k].pc = "threw"]
  /\ UNCHANGED <<pipeVars, exBlock, exUrl, exOut, fxIn, fxOut, tagPc, tagFound,
                 tagBlocks, tagLoads, dual, retry, paste, memo, utilVars>>

\* the insertTag commands resolve, or one rejects
RaceTagsSettle ==
  /\ race.pc = "live"
  /\ \E k \in Invocations, ok \in BOOLEAN :
       /\ race.inv[k].pc = "tagging"
       /\ race' = [race EXCEPT !.inv[k].pc = IF ok THEN "done" ELSE "threw"]
  /\ UNCHANGED <<pipeVars, exBlock, exUrl, exOut, fxIn, fxOut, tagPc, tagFound,
                 tagBlocks, tagLoads, dual, retry, paste, memo, utilVars>>

NextRace ==
  RaceStart \/ RaceFetchSettles \/ RaceDelayElapses \/ RaceInsertSettles \/ RaceTagsSettle

SpecRace == InitRace /\ [][NextRace]_vars

\* ------------------------------------------------------------------------
\* index.ts (part_000): load, unload, the paste listener and its timers
\* ------------------------------------------------------------------------

MaxLifecycle == 4

MaxLifePastes == 2

\* load(pluginName), run to its end.  When one of its awaits rejects or a
\* registration throws (~ok) it ends before the listener is registered;
\* otherwise pasteHandler = createPasteHandler(pluginName), a new function,
\* is assigned over the previous one and added to the document
LoadPlugin(l, ok) ==
  IF ~ok THEN [l EXCEPT !.last = "load", !.calls = @ + 1]
  ELSE [l EXCEPT !.pasteHandler = l.nextHandler,
                 !.attached = @ \cup {l.nextHandler},
                 !.nextHandler = @ + 1,
                 !.last = "load", !.calls = @ + 1]

\* unload(): the listener held in pasteHandler is removed, if any; timers
\* are not touched.  stale marks the timers that were pending at an unload
UnloadPlugin(l) ==
  [l EXCEPT !.attached = IF l.pasteHandler # 0 THEN @ \ {l.pasteHandler} ELSE @,
            !.pasteHandler = 0,
            !.timers = {[tm EXCEPT !.stale = TRUE] : tm \in @},
            !.last = "unload", !.calls = @ + 1]

\* pasteHandler is the module variable (0 for null), attached the paste
\* listeners of the document that the plugin added, timers the pending
\* 500 ms timers, started the processVideoLink invocations begun by a timer,
\* each with whether its timer was pending at an unload
InitLife ==
  /\ Quiet("life")
  /\ life = [pc |-> "live", pasteHandler |-> 0, attached |-> {}, nextHandler |-> 1,
             timers |-> {}, nextTimer |-> 1, pastes |-> 0, started |-> <<>>,
             last |-> "none", calls |-> 0]

LifeLoad ==
  /\ life.pc = "live"
  /\ life.calls < MaxLifecycle
  /\ \E ok \in BOOLEAN : life' = LoadPlugin(life, ok)
  /\ UNCHANGED <<pipeVars, exBlock, exUrl, exOut, fxIn, fxOut, tagPc, tagFound,
                 tagBlocks, tagLoads, dual, retry, paste, memo, race, cleanup, cache>>

LifeUnload ==
  /\ life.pc = "live"
  /\ life.calls < MaxLifecycle
  /\ life' = UnloadPlugin(life)
  /\ UNCHANGED <<pipeVars, exBlock, exUrl, exOut, fxIn, fxOut, tagPc, tagFound,
                 tagBlocks, tagLoads, dual, retry, paste, memo, race, cleanup, cache>>

\* a paste event: every attached listener runs handlePaste, which returns
\* on a text without a video link and otherwise sets a timer of its own
LifePaste ==
  /\ life.pc = "live"
  /\ life.pastes < MaxLifePastes
  /\ \E matches \in BOOLEAN :
       life' = [life EXCEPT
                  !.pastes = @ + 1,
                  !.timers = IF matches
                             THEN @ \cup {[id |-> life.nextTimer + h, stale |-> FALSE] :
                                            h \in life.attached}
                             ELSE @,
                  !.nextTimer = IF matches THEN @ + life.nextHandler ELSE @]
  /\ UNCHANGED <<pipeVars, exBlock, exUrl, exOut, fxIn, fxOut, tagPc, tagFound,
                 tagBlocks, tagLoads, dual, retry, paste, memo, race, cleanup, cache>>

\* a timer fires: with a cursor anchor processVideoLink is called
LifeTimerFires ==
  /\ life.pc = "live"
  /\ \E tm \in life.timers, anchor \in BOOLEAN :
       life' = [life EXCEPT
                  !.timers = @ \ {tm},
                  !.started = IF anchor THEN Append(@, [stale |-> tm.stale]) ELSE @]
  /\ UNCHANGED <<pipeVars, exBlock, exUrl, exOut, fxIn, fxOut, tagPc, tagFound,
                 tagBlocks, tagLoads, dual, retry, paste, memo, race, cleanup, cache>>

NextLife == LifeLoad \/ LifeUnload \/ LifePaste \/ LifeTimerFires

SpecLife == InitLife /\ [][NextLife]_vars

\* ------------------------------------------------------------------------
\* cleanup-creators.ts: cleanupUnusedCreatorBlocks
\* ------------------------------------------------------------------------

\* '哔哩UP：', '油管博主：', 'Vimeo作者：'
CREATOR_PREFIXES == {<<"U", "P", ":">>, <<"Y", "T", ":">>, <<"V", "M", ":">>}

\* String.prototype.startsWith
StartsWith(s, prefix) ==
  Len(prefix) <= Len(s) /\ SubSeq(s, 1, Len(prefix)) = prefix

isCreatorBlockAnywhere(b) ==
  \E k \in DOMAIN b.aliases : \E prefix \in CREATOR_PREFIXES :
    \E i \in 1..Len(b.aliases[k]) :
      StartsWith(SubSeq(b.aliases[k], i, Len(b.aliases[k])), prefix)

\* isCreatorBlock(block): false without aliases, else some alias starts with
\* one of the prefixes
isCreatorBlock(b) ==
  IF b.aliases = <<>> THEN FALSE
  ELSE \E k \in DOMAIN b.aliases : \E prefix \in CREATOR_PREFIXES :
         StartsWith(b.aliases[k], prefix)

\* hasReferences(block): backRefs is there and not empty (-1 stands for a
\* block without a backRefs field)
hasReferences(b) == b.backRefs > 0

MaxTagged == 2

\* ids of the blocks of orca.state.blocks; MissingId is in no state
CleanupIds == 1..2

MissingId == Cardinality(CleanupIds) + 1

SampleAliases ==
  { <<>>,
    << <<"U", "P", ":", "a">> >>,
    << <<"n", "o", "t", "e">>, <<"Y", "T", ":", "b">> >>,
    << <<"a", "U", "P", ":">> >>,
    << <<"V", "M">> >> }

SampleStateBlocks ==
  {[loaded |-> FALSE, aliases |-> <<>>, backRefs |-> -1]}
    \cup {[loaded |-> TRUE, aliases |-> al, backRefs |-> n] :
            al \in SampleAliases, n \in {-1, 0, 1}}

\* the answers of get-blocks-with-tags: not an array, or a list of ids
SampleTagged ==
  {[isArray |-> FALSE, ids |-> <<>>]}
    \cup {[isArray |-> TRUE, ids |-> ids] :
            ids \in UNION {[1..n -> CleanupIds \cup {MissingId}] : n \in 0..MaxTagged}}

\* the synchronous part of cleanupUnusedCreatorBlocks after the list of
\* tagged blocks has arrived: the statistics and the ids to delete
CleanupScan(blocks, tagged) ==
  LET InState(id) == id \in DOMAIN blocks /\ blocks[id].loaded
      IsCreator(id) == InState(id) /\ isCreatorBlock(blocks[id])
      IsUnused(id) == ~hasReferences(blocks[id])
      WithCreators(creatorBlocks) ==
        LET WithUnused(unused) ==
              [totalChecked |-> Len(tagged.ids),
               creatorBlocksFound |-> Len(creatorBlocks),
               unusedCreatorBlocks |-> Len(unused),
               blockIdsToDelete |-> unused]
        IN  WithUnused(SelectSeq(creatorBlocks, IsUnused))
  IN  IF ~tagged.isArray
      THEN [totalChecked |-> 0, creatorBlocksFound |-> 0, unusedCreatorBlocks |-> 0,
            blockIdsToDelete |-> <<>>]
      ELSE WithCreators(SelectSeq(tagged.ids, IsCreator))

NoCleanupResult == [returned |-> FALSE, deletedBlockIds |-> <<>>, deleted |-> 0]

InitCleanup ==
  /\ Quiet("cleanup")
  /\ \E blocks \in [CleanupIds -> SampleStateBlocks], tagged \in SampleTagged :
       cleanup = [pc |-> "ready", blocks |-> blocks, tagged |-> tagged,
                  scan |-> CleanupScan(blocks, [isArray |-> FALSE, ids |-> <<>>]),
                  removed |-> {}, result |-> NoCleanupResult]

\* cleanupUnusedCreatorBlocks() up to `await orca.invokeBackend(...)`
CleanupCall ==
  /\ cleanup.pc = "ready"
  /\ cleanup' = [cleanup EXCEPT !.pc = "lookup"]
  /\ UNCHANGED <<pipeVars, exBlock, exUrl, exOut, fxIn, fxOut, tagPc, tagFound,
                 tagBlocks, tagLoads, dual, retry, paste, memo, race, life, cache>>

\* get-blocks-with-tags settles: a rejection is rethrown; otherwise the scan
\* runs and either returns (no array, nothing to delete) or invokes
\* core.editor.deleteBlocks
CleanupLookupSettles ==
  /\ cleanup.pc = "lookup"
  /\ \E ok \in BOOLEAN :
       \E scan \in {CleanupScan(cleanup.blocks, cleanup.tagged)} :
         cleanup' =
           IF ~ok THEN [cleanup EXCEPT !.pc = "threw"]
           ELSE IF scan.blockIdsToDelete = <<>>
           THEN [cleanup EXCEPT !.pc = "returned", !.scan = scan,
                                !.result = [returned |-> TRUE, deletedBlockIds |-> <<>>,
                                            deleted |-> 0]]
           ELSE [cleanup EXCEPT !.pc = "deleting", !.scan = scan]
  /\ UNCHANGED <<pipeVars, exBlock, exUrl, exOut, fxIn, fxOut, tagPc, tagFound,
                 tagBlocks, tagLoads, dual, retry, paste, memo, race, life, cache>>

\* deleteBlocks resolves, with the blocks removed by the host, or rejects
CleanupDeleteSettles ==
  /\ cleanup.pc = "deleting"
  /\ \E ok \in BOOLEAN :
       cleanup' =
         IF ok
         THEN [cleanup EXCEPT
                 !.pc = "returned",
                 !.removed = {cleanup.scan.blockIdsToDelete[k] :
                                k \in DOMAIN cleanup.scan.blockIdsToDelete},
                 !.result = [returned |-> TRUE,
                             deletedBlockIds |-> cleanup.scan.blockIdsToDelete,
                             deleted |-> Len(cleanup.scan.blockIdsToDelete)]]
         ELSE [cleanup EXCEPT !.pc = "threw"]
  /\ UNCHANGED <<pipeVars, exBlock, exUrl, exOut, fxIn, fxOut, tagPc, tagFound,
                 tagBlocks, tagLoads, dual, retry, paste, memo, race, life, cache>>

NextCleanup == CleanupCall \/ CleanupLookupSettles \/ CleanupDeleteSettles

SpecCleanup == InitCleanup /\ [][NextCleanup]_vars

\* ------------------------------------------------------------------------
\* main.ts: the video-info cache (cache, getCachedVideoInfo,
\* setCachedVideoInfo, getVideoInfo, load, unload)
\* ------------------------------------------------------------------------

\* CACHE_CONFIG.maxSize, scaled down
CacheMaxSize == 3

\* CACHE_CONFIG.ttl (30 minutes), in clock ticks of 15 minutes
TtlTicks == 2

MaxCacheClock == 2

MaxFetches == 5

MaxInflight == 2

\* the video ids, in the order in which they are first asked for (the ids
\* are interchangeable)
CacheKeys == <<"A", "B", "C", "D">>

\* Map.prototype.set on a Map kept as the list of its entries in insertion
\* order: an existing key keeps its place, a new key goes to the end
MapSet(m, key, timestamp) ==
  IF \E i \in DOMAIN m : m[i].key = key
  THEN [i \in DOMAIN m |-> IF m[i].key = key
                           THEN [key |-> key, timestamp |-> timestamp] ELSE m[i]]
  ELSE Append(m, [key |-> key, timestamp |-> timestamp])

getCachedVideoInfoInclusive(m, id, now) ==
  \E i \in DOMAIN m : m[i].key = id /\ now - m[i].timestamp <= TtlTicks

\* getCachedVideoInfo(videoId) at time now: whether it returns the cached
\* data (TRUE) or null (FALSE)
getCachedVideoInfo(m, id, now) ==
  \E i \in DOMAIN m : m[i].key = id /\ now - m[i].timestamp < TtlTicks

setCachedVideoInfoLate(m, id, now) ==
  MapSet(IF Len(m) > CacheMaxSize THEN Tail(m) ELSE m, id, now)

\* setCachedVideoInfo(videoId, data) at time now: with the cache full the
\* first key of cache.keys() is deleted, then the entry is set
setCachedVideoInfo(m, id, now) ==
  MapSet(IF Len(m) >= CacheMaxSize THEN Tail(m) ELSE m, id, now)

NoCall == [key |-> "none", hit |-> FALSE, requested |-> FALSE]

NoSet == [key |-> "none", pre |-> <<>>]

\* entries is the Map; inflight the video ids whose fetch has not settled,
\* in the order of the calls; asked the number of different ids asked for;
\* lastCall is the getVideoInfo call just made, lastSet the
\* setCachedVideoInfo call just made with the cache as it was before it
InitCache ==
  /\ Quiet("cache")
  /\ cache = [pc |-> "live", now |-> 0, entries |-> <<>>, inflight |-> <<>>,
              asked |-> 0, fetches |-> 0, last |-> "none",
              lastCall |-> NoCall, lastSet |-> NoSet]

\* 15 minutes pass
CacheTick ==
  /\ cache.pc = "live"
  /\ cache.now < MaxCacheClock
  /\ cache' = [cache EXCEPT !.now = @ + 1, !.last = "tick",
                            !.lastCall = NoCall, !.lastSet = NoSet]
  /\ UNCHANGED <<pipeVars, exBlock, exUrl, exOut, fxIn, fxOut, tagPc, tagFound,
                 tagBlocks, tagLoads, dual, retry, paste, memo, race, life, cleanup>>

\* getVideoInfo(videoId) up to its return of the cached data or to
\* `await fetchWithRetry(...)`
CacheGetVideoInfo ==
  /\ cache.pc = "live"
  /\ \E k \in 1..Len(CacheKeys) :
       \E cached \in {getCachedVideoInfo(cache.entries, CacheKeys[k], cache.now)} :
         /\ k <= cache.asked + 1
         /\ cached \/ (cache.fetches < MaxFetches /\ Len(cache.inflight) < MaxInflight)
         /\ cache' = [cache EXCEPT
                        !.last = "get",
                        !.lastCall = [key |-> CacheKeys[k], hit |-> cached,
                                      requested |-> ~cached],
                        !.lastSet = NoSet,
                        !.asked = IF k > @ THEN k ELSE @,
                        !.inflight = IF cached THEN @ ELSE Append(@, CacheKeys[k]),
                        !.fetches = IF cached THEN @ ELSE @ + 1]
  /\ UNCHANGED <<pipeVars, exBlock, exUrl, exOut, fxIn, fxOut, tagPc, tagFound,
                 tagBlocks, tagLoads, dual, retry, paste, memo, race, life, cleanup>>

\* the request of a getVideoInfo call settles: a usable payload is stored
\* with setCachedVideoInfo, anything else stores nothing
CacheFetchSettles ==
  /\ cache.pc = "live"
  /\ \E n \in 1..Len(cache.inflight), usable \in BOOLEAN :
       \E rest \in {SubSeq(cache.inflight, 1, n - 1)
                      \o SubSeq(cache.inflight, n + 1, Len(cache.inflight))} :
         cache' = IF usable
                  THEN [cache EXCEPT
                          !.inflight = rest,
                          !.entries = setCachedVideoInfo(@, cache.inflight[n], cache.now),
                          !.last = "set",
                          !.lastCall = NoCall,
                          !.lastSet = [key |-> cache.inflight[n], pre |-> cache.entries]]
                  ELSE [cache EXCEPT !.inflight = rest, !.last = "failed",
                                     !.lastCall = NoCall, !.lastSet = NoSet]
  /\ UNCHANGED <<pipeVars, exBlock, exUrl, exOut, fxIn, fxOut, tagPc, tagFound,
                 tagBlocks, tagLoads, dual, retry, paste, memo, race, life, cleanup>>

\* load(pluginName) and unload(): cache.clear()
CacheClear ==
  /\ cache.pc = "live"
  /\ cache.last \notin {"load", "unload", "none"}
  /\ \E op \in {"load", "unload"} :
       cache' = [cache EXCEPT !.entries = <<>>, !.last = op,
                              !.lastCall = NoCall, !.lastSet = NoSet]
  /\ UNCHANGED <<pipeVars, exBlock, exUrl, exOut, fxIn, fxOut, tagPc, tagFound,
                 tagBlocks, tagLoads, dual, retry, paste, memo, race, life, cleanup>>

NextCache == CacheTick \/ CacheGetVideoInfo \/ CacheFetchSettles \/ CacheClear

SpecCache == InitCache /\ [][NextCache]_vars

\* ------------------------------------------------------------------------
\* Properties
\* ------------------------------------------------------------------------

\* C1: after two invocations of the pipeline on the same block have both
\* run to their success notification, with the fetch returning the same
\* cover URL both times, the block has at most one image child block with
\* that URL.
C1_OneImagePerCover ==
  succeeded = 2 =>
    Cardinality({k \in 1..Len(doc.children) :
                   /\ doc.children[k].type = "image"
                   /\ doc.children[k].src = CoverOf(platform, videoInfo)}) <= 1

\* C2: within one invocation the awaited steps are issued in the order
\* fetch, insertTag, setRefData, insertBlock(image), insertBlock(video),
\* insertTag(author); each step is issued only after every earlier one has
\* resolved; setRefData is issued only after insertTag has resolved and the
\* re-read of the block has found the tag reference; and the success
\* notification is emitted only after every issued step has resolved.
C2_StrictOrder ==
  LET rank == [s \in {"fetch", "insertTag", "setRefData", "insertImage", "insertVideo", "insertAuthorTag"} |->
                 CASE s = "fetch" -> 0
                   [] s = "insertTag" -> 1
                   [] s = "setRefData" -> 2
                   [] s = "insertImage" -> 3
                   [] s = "insertVideo" -> 4
                   [] s = "insertAuthorTag" -> 5]
      resolved(s) == \E k \in 1..Len(applied) : applied[k] = s
      wasIssued(s) == \E k \in 1..Len(issued) : issued[k] = s
  IN  /\ \A a, b \in 1..Len(issued) : a < b => rank[issued[a]] < rank[issued[b]]
      /\ Len(applied) <= Len(issued)
      /\ Len(issued) <= Len(applied) + 1
      /\ \A k \in 1..Len(applied) : applied[k] = issued[k]
      /\ (pc \in {"fetch", "host"} => Len(issued) = Len(applied) + 1 /\ issued[Len(issued)] = pending)
      /\ (Len(issued) >= 2 => issued[2] = "insertTag")
      /\ (wasIssued("setRefData") => resolved("insertTag") /\ tagRef)
      /\ (outcome = "success" =>
            /\ applied = issued
            /\ resolved("insertTag")
            /\ notes[Len(notes)].level = "success")

C2_Witness ==
  /\ outcome = "success"
  /\ applied = <<"fetch", "insertTag", "setRefData", "insertImage", "insertVideo", "insertAuthorTag">>

C4_ExactlyOneNotification == pc = "done" => Len(notes) = 1

\* C4: by the time an invocation returns it has emitted at most one
\* success-or-error notification, preceded by one progress (info)
\* notification exactly when a fetch was started: two notifications when
\* the invocation ends in success, fetch failure or a rejected host command,
\* one error notification when no platform is detected or the Vimeo token
\* is missing, and none when the block is missing or process*Link returns
\* before its fetch (no content, no URL, no video id).
C4_NotificationsPerOutcome ==
  pc = "done" =>
    /\ ~escaped
    /\ Cardinality({k \in 1..Len(notes) : notes[k].level # "info"}) <= 1
    /\ outcome \in {"success", "fetchFailed", "fetchThrew", "hostRejected"} =>
         /\ Len(notes) = 2
         /\ notes[1].level = "info"
         /\ notes[2].level = (IF outcome = "success" THEN "success" ELSE "error")
    /\ outcome \in {"noLink", "noToken"} =>
         /\ Len(notes) = 1
         /\ notes[1].level = "error"
    /\ outcome \in {"noBlock", "noContent", "noUrl", "noId"} => notes = <<>>

C4_Witness ==
  /\ pc = "done"
  /\ outcome = "success"
  /\ Len(notes) = 2

\* C5: when a host command of the annotate sequence rejects, the invocation
\* ends: no further step is issued, exactly one error notification (and no
\* success notification) is emitted, the rejection does not leave
\* process*Link, and everything the earlier steps wrote is still in the
\* document, together with everything that was there before the invocation.
C5_RejectionKeepsPartialWrites ==
  outcome = "hostRejected" =>
    LET resolved(s) == \E k \in 1..Len(applied) : applied[k] = s
        added == {k \in 1..Len(doc.children) : k > Len(doc0.children)}
    IN  /\ pc = "done"
        /\ pending = "none"
        /\ ~escaped
        /\ Len(issued) = Len(applied) + 1
        /\ \A k \in 1..Len(applied) : applied[k] = issued[k]
        /\ Cardinality({k \in 1..Len(notes) : notes[k].level = "error"}) = 1
        /\ \A k \in 1..Len(notes) : notes[k].level # "success"
        /\ doc0.refs \subseteq doc.refs
        /\ Len(doc0.children) <= Len(doc.children)
        /\ SubSeq(doc.children, 1, Len(doc0.children)) = doc0.children
        /\ (resolved("insertTag") => <<TagAlias(platform), <<>>>> \in doc.refs)
        /\ (resolved("setRefData") => doc.refData[platform] = RefData(platform, videoInfo))
        /\ (resolved("insertImage") =>
              \E k \in added : doc.children[k] = [type |-> "image", src |-> CoverOf(platform, videoInfo)])
        /\ (resolved("insertVideo") => \E k \in added : doc.children[k].type = "video")
        /\ (resolved("insertAuthorTag") =>
              <<AuthorPrefix(platform), AuthorOf(platform, videoInfo)>> \in doc.refs)

C5_Witness ==
  /\ outcome = "hostRejected"
  /\ applied = <<"fetch", "insertTag", "setRefData", "insertImage">>
  /\ Len(doc.children) = Len(doc0.children) + 1

\* C6: when some link fragment of the block matches the platform pattern,
\* extract*Url returns the URL of the first such link fragment in content
\* order, whatever the text values hold; when none does, it returns the
\* leftmost match of the pattern in the concatenated text values, or null
\* when there is none (or the block has no content).
C6_LinkFragmentFirst ==
  exOut.op = "extractUrl" =>
    LET re == exOut.platform
        c == exBlock.content
        links == {k \in 1..Len(c) : LinkFragmentMatches(re, c[k])}
        text == JoinValues(c)
        v == exOut.value
    IN  IF ~exBlock.hasContent THEN v = Null
        ELSE IF links # {}
        THEN \E k \in links : v = c[k].l /\ \A j \in links : k <= j
        ELSE IF \A i \in 1..Len(text) : Regex(re, text, i).e = 0
        THEN v = Null
        ELSE \E i \in 1..Len(text) :
               /\ Regex(re, text, i).e # 0
               /\ \A j \in 1..(i - 1) : Regex(re, text, j).e = 0
               /\ v = SubSeq(text, i, Regex(re, text, i).e - 1)

\* a text fragment holding a matching URL comes before a link fragment
\* holding a different matching URL
C6_Witness ==
  /\ exOut.op = "extractUrl"
  /\ exBlock.hasContent
  /\ Len(exBlock.content) = 2
  /\ exBlock.content[1].t = "t"
  /\ Test(exOut.platform, exBlock.content[1].v)
  /\ LinkFragmentMatches(exOut.platform, exBlock.content[2])
  /\ exBlock.content[2].l # exBlock.content[1].v
  /\ exOut.value = exBlock.content[2].l

\* C7: detectVideoPlatform returns 'bilibili' for every block that the
\* Bilibili matcher matches, whatever other platform it also matches; it
\* returns null exactly when no platform matcher matches; and it names only
\* a platform whose matcher matches.
C7_BilibiliWins ==
  exOut.op = "detect" =>
    /\ hasBilibiliLink(exBlock) => exOut.platform = "bilibili"
    /\ exOut.platform = NoPlatform <=>
         ~(hasBilibiliLink(exBlock) \/ hasYouTubeLink(exBlock) \/ hasVimeoLink(exBlock))
    /\ exOut.platform = "youtube" => hasYouTubeLink(exBlock)
    /\ exOut.platform = "vimeo" => hasVimeoLink(exBlock)

C7_Witness ==
  /\ exOut.op = "detect"
  /\ hasBilibiliLink(exBlock)
  /\ hasYouTubeLink(exBlock)
  /\ exOut.platform = "bilibili"

\* C8 (as stated): a block that matches both Vimeo and YouTube and not
\* Bilibili is resolved to Vimeo.
C8_VimeoBeforeYouTube ==
  (/\ exOut.op = "detect"
   /\ ~hasBilibiliLink(exBlock)
   /\ hasVimeoLink(exBlock)
   /\ hasYouTubeLink(exBlock)) => exOut.platform = "vimeo"

\* C8: the detector tries Bilibili, then YouTube, then Vimeo: a block that
\* matches both YouTube and Vimeo and not Bilibili is resolved to YouTube,
\* and Vimeo is returned only for a block that matches neither Bilibili nor
\* YouTube.
C8_YouTubeBeforeVimeo ==
  exOut.op = "detect" =>
    /\ (/\ ~hasBilibiliLink(exBlock)
        /\ hasVimeoLink(exBlock)
        /\ hasYouTubeLink(exBlock)) => exOut.platform = "youtube"
    /\ exOut.platform = "vimeo" => ~hasBilibiliLink(exBlock) /\ ~hasYouTubeLink(exBlock)

C8_Witness ==
  /\ exOut.op = "detect"
  /\ ~hasBilibiliLink(exBlock)
  /\ hasVimeoLink(exBlock)
  /\ hasYouTubeLink(exBlock)
  /\ exOut.platform = "youtube"

\* C9: extractVideoId / extractYouTubeVideoId / extractVimeoVideoId return
\* an id for every string that matches the platform's link pattern and
\* null for every string that does not.
C9_ExtractIdTotal ==
  exOut.op = "extractId" =>
    (Test(exOut.platform, exUrl) <=> exOut.value # Null)

\* C10: when the block is missing, has no content, or no platform matcher
\* matches it, detectVideoPlatform returns null and an invocation of
\* processVideoLink issues no network request and no host command and
\* leaves the host document as it was.
C10_NoLinkNoOp ==
  (\/ ~block.exists
   \/ ~block.hasContent
   \/ ~(hasBilibiliLink(block) \/ hasYouTubeLink(block) \/ hasVimeoLink(block))) =>
    /\ detectVideoPlatform(block) = NoPlatform
    /\ requests = 0
    /\ http = NoHttp
    /\ issued = <<>>
    /\ applied = <<>>
    /\ pc \in {"idle", "done"}
    /\ doc = doc0
    /\ doc = EmptyDoc

C10_Witness ==
  /\ run = 2
  /\ pc = "done"
  /\ block.hasContent
  /\ Len(block.content) > 0
  /\ outcome \in {"noLink", "noUrl"}
  /\ doc = EmptyDoc

\* C11: when the content of the block holds no recognizable platform URL,
\* an invocation of processVideoLink that detects the platform itself ends
\* without emitting any notification.
C11_NoLinkSilent ==
  (/\ pc = "done"
   /\ outcome = "noLink"
   /\ block.hasContent
   /\ ~(hasBilibiliLink(block) \/ hasYouTubeLink(block) \/ hasVimeoLink(block))) =>
    notes = <<>>

\* C12: processVimeoLink on a block holding a Vimeo URL, with the
\* vimeoAccessToken setting absent or empty, emits the one "configure
\* token" error notification and returns with no network request issued and
\* no host command issued, the document left as it was.
C12_MissingTokenFailsFast ==
  (/\ run > 0
   /\ platform = "vimeo"
   /\ ~Truthy(settings.vimeoAccessToken)
   /\ block.hasContent
   /\ extractVimeoUrl(block) # Null
   /\ extractVimeoVideoId(extractVimeoUrl(block)) # Null) =>
    /\ pc = "done"
    /\ outcome = "noToken"
    /\ notes = <<Note("error", "configure token", "")>>
    /\ requests = 0
    /\ http = NoHttp
    /\ issued = <<>>
    /\ applied = <<>>
    /\ doc = doc0

C12_Witness ==
  /\ run = 2
  /\ platform = "vimeo"
  /\ settings.vimeoAccessToken = <<>>
  /\ outcome = "noToken"
  /\ notes = <<Note("error", "configure token", "")>>
  /\ doc = doc0
  /\ doc # EmptyDoc

\* C13: getCompleteVideoInfo resolves for every pair of outcomes of the
\* metadata call and the tag call, after two requests; its metadata fields
\* are those of the metadata call and its tags those of the tag call; when
\* the metadata call succeeds and the tag call fails (network error or
\* non-ok status) the result is the full metadata with an empty tag list.
C13_PartialFailure ==
  fxOut.fetcher = "getCompleteVideoInfo" =>
    /\ ~fxOut.out.threw
    /\ fxOut.out.requests = 2
    /\ fxOut.out.info.tags = getVideoTags(fxIn.tags)
    /\ [fxOut.out.info EXCEPT !.tags = <<>>] = getVideoInfo(fxIn.view)
    /\ (fxIn.tags.net = "error" \/ ~fxIn.tags.ok) => fxOut.out.info.tags = <<>>
    /\ (/\ fxIn.view.net = "ok" /\ fxIn.view.ok /\ fxIn.view.json = "ok"
        /\ fxIn.view.body.code = 0 /\ fxIn.view.body.hasData
        /\ (fxIn.tags.net = "error" \/ ~fxIn.tags.ok)) =>
          /\ fxOut.out.info.coverUrl = OrNull(fxIn.view.body.pic)
          /\ fxOut.out.info.upName = OrNull(fxIn.view.body.ownerName)
          /\ fxOut.out.info.title = OrNull(fxIn.view.body.title)
          /\ (fxIn.view.body.pubdate # 0) = (fxOut.out.info.publishDate # Null)

C13_Witness ==
  /\ fxOut.fetcher = "getCompleteVideoInfo"
  /\ fxIn.view.ok /\ fxIn.view.body.code = 0 /\ fxIn.view.body.pic = Cover1
  /\ fxIn.view.body.title = Title1
  /\ fxIn.tags.net = "ok" /\ ~fxIn.tags.ok
  /\ fxOut.out.info.coverUrl = Cover1
  /\ fxOut.out.info.title = Title1
  /\ fxOut.out.info.tags = <<>>

\* C14: getVideoInfo returns the all-absent VideoInfo whenever the request
\* throws, the response is non-ok, the body does not parse, or the payload
\* has a code other than 0 or no data object.
C14_AllAbsentOnFailure ==
  (/\ fxOut.fetcher = "getVideoInfo"
   /\ \/ fxIn.view.net = "error"
      \/ ~fxIn.view.ok
      \/ fxIn.view.json = "bad"
      \/ fxIn.view.body.code # 0
      \/ ~fxIn.view.body.hasData) =>
    fxOut.info = [coverUrl |-> Null, upName |-> Null, title |-> Null,
                  tags |-> <<>>, publishDate |-> Null]

C14_Witness ==
  /\ fxOut.fetcher = "getVideoInfo"
  /\ fxIn.view.net = "ok" /\ fxIn.view.ok /\ fxIn.view.json = "ok"
  /\ fxIn.view.body.code # 0
  /\ fxIn.view.body.hasData
  /\ fxIn.view.body.pic = Cover1
  /\ fxOut.info.coverUrl = Null
  /\ fxOut.info.publishDate = Null

\* C15: on a parsed payload with code 0 and a data object, getVideoInfo
\* returns each of pic, owner.name, title and pubdate that is present with
\* its value (pubdate as its YYYY-MM-DD date) and null for each that is
\* missing, whatever the other fields are, and an empty tag list.
C15_FieldIndependence ==
  (/\ fxOut.fetcher = "getVideoInfo"
   /\ fxIn.view.net = "ok" /\ fxIn.view.ok /\ fxIn.view.json = "ok"
   /\ fxIn.view.body.code = 0
   /\ fxIn.view.body.hasData) =>
    /\ fxOut.info.coverUrl = IF Truthy(fxIn.view.body.pic) THEN fxIn.view.body.pic ELSE Null
    /\ fxOut.info.upName =
         IF Truthy(fxIn.view.body.ownerName) THEN fxIn.view.body.ownerName ELSE Null
    /\ fxOut.info.title = IF Truthy(fxIn.view.body.title) THEN fxIn.view.body.title ELSE Null
    /\ fxIn.view.body.pubdate = 0 => fxOut.info.publishDate = Null
    /\ fxIn.view.body.pubdate = 1640995200 =>
         fxOut.info.publishDate = <<"2","0","2","2","-","0","1","-","0","1">>
    /\ fxOut.info.tags = <<>>

C15_Witness ==
  /\ fxOut.fetcher = "getVideoInfo"
  /\ fxIn.view.body.code = 0 /\ fxIn.view.body.hasData
  /\ fxIn.view.body.pic = Null
  /\ fxIn.view.body.ownerName = Null
  /\ fxIn.view.body.title = Title1
  /\ fxIn.view.body.pubdate # 0
  /\ fxOut.info.coverUrl = Null
  /\ fxOut.info.title = Title1
  /\ fxOut.info.publishDate # Null

C17_FourPropertiesWritten ==
  (\E k \in 1..Len(applied) : applied[k] = "setRefData") =>
    /\ doc.refData[platform].img = CoverOf(platform, videoInfo)
    /\ doc.refData[platform].tags = JoinWith(videoInfo.tags, <<"|">>)
    /\ doc.refData[platform].publishDate # Null
    /\ doc.refData[platform].publishDateText = doc.refData[platform].publishDate

\* C18: every invocation that ends with the success notification has carried
\* out setRefData, and the img property of the platform tag holds the cover
\* URL, whatever the insertImageBlock setting.
C18_SuccessStoredCover ==
  outcome = "success" =>
    /\ \E k \in 1..Len(applied) : applied[k] = "setRefData"
    /\ doc.refData[platform].img = CoverOf(platform, videoInfo)

\* C20: the image step of an invocation follows the insertImageBlock setting
\* that invocation read: it is issued only when the setting is not false,
\* and an invocation that ends in success has added exactly one image child
\* when the setting is not false (unset included) and none when it is
\* false, whatever the setting was in the invocation before.
C20_ImageToggleReadPerInvocation ==
  LET imagesIn(d) == Cardinality({k \in 1..Len(d.children) : d.children[k].type = "image"})
  IN  /\ (\E k \in 1..Len(issued) : issued[k] = "insertImage") =>
            settings.insertImageBlock # "false"
      /\ outcome = "success" =>
            /\ (\E k \in 1..Len(applied) : applied[k] = "insertImage") =
                  (settings.insertImageBlock # "false")
            /\ imagesIn(doc) = imagesIn(doc0) +
                  (IF settings.insertImageBlock # "false" THEN 1 ELSE 0)

C20_Witness ==
  /\ run = 2
  /\ outcome = "success"
  /\ settings.insertImageBlock = "false"
  /\ \A k \in 1..Len(applied) : applied[k] # "insertImage"
  /\ \E k \in 1..Len(doc0.children) : doc0.children[k].type = "image"
  /\ \A k \in 1..Len(doc.children) :
        doc.children[k].type = "image" => k <= Len(doc0.children)

\* C19: over any sequence of plugin loads, initialize*Tag creates at most
\* one tag block for each platform alias.
C19_AtMostOneTagBlock ==
  \A p \in Platforms : tagBlocks[p] <= 1

\* C21: an invocation that ends in success has added exactly one video child
\* when the insertVideoBlock setting is on, on every platform and in every
\* fetch mode, and none when the setting is off or unset.
C21_VideoBlockFollowsSetting ==
  LET videosIn(d) == Cardinality({k \in 1..Len(d.children) : d.children[k].type = "video"})
  IN  outcome = "success" =>
        videosIn(doc) = videosIn(doc0) +
          (IF settings.insertVideoBlock = "true" THEN 1 ELSE 0)

\* C22: an invocation whose fetch fails shows the user the progress
\* notification and then one error notification that is the same whatever
\* the cause (network error, 403, 404, another non-2xx status, a malformed
\* payload, a payload without a cover): the generic fetch-failure one, which
\* is what every platform shows for a payload without a cover.
C22_UniformFetchFailure ==
  outcome \in {"fetchFailed", "fetchThrew"} =>
    notes = <<Note("info", "fetching", ""), Note("error", "fetch failed", "")>>

\* C23: for every positive pubdate (epoch seconds) getVideoInfo returns as
\* publishDate the ten characters YYYY-MM-DD of a valid calendar date whose
\* day number since 1970-01-01, counted year by year and month by month, is
\* pubdate div 86400; when pubdate is absent publishDate is null.
C23_UtcCalendarDate ==
  (/\ fxOut.fetcher = "getVideoInfo"
   /\ fxIn.view.net = "ok" /\ fxIn.view.ok /\ fxIn.view.json = "ok"
   /\ fxIn.view.body.code = 0 /\ fxIn.view.body.hasData) =>
    LET text == fxOut.info.publishDate
        Val(c) == CHOOSE k \in 0..9 : DigitChars[k + 1] = c
        Leap(y) == (y % 4 = 0 /\ y % 100 # 0) \/ y % 400 = 0
        LeapsThrough(y) == y \div 4 - y \div 100 + y \div 400
        DaysIn(m, y) == IF m = 2 THEN (IF Leap(y) THEN 29 ELSE 28)
                        ELSE IF m \in {4, 6, 9, 11} THEN 30 ELSE 31
        RECURSIVE DaysBeforeMonth(_, _)
        DaysBeforeMonth(m, y) ==
          IF m = 1 THEN 0 ELSE DaysBeforeMonth(m - 1, y) + DaysIn(m - 1, y)
        DayNumber(y, m, d) ==
          365 * (y - 1970) + (LeapsThrough(y - 1) - LeapsThrough(1969))
            + DaysBeforeMonth(m, y) + (d - 1)
        IsDateOfDay(y, m, d, n) ==
          /\ m \in 1..12
          /\ d \in 1..DaysIn(m, y)
          /\ DayNumber(y, m, d) = n
    IN  IF fxIn.view.body.pubdate = 0 THEN text = Null
        ELSE /\ Len(text) = 10
             /\ text[5] = "-" /\ text[8] = "-"
             /\ \A k \in {1, 2, 3, 4, 6, 7, 9, 10} : \E v \in 0..9 : DigitChars[v + 1] = text[k]
             /\ IsDateOfDay(1000 * Val(text[1]) + 100 * Val(text[2]) + 10 * Val(text[3]) + Val(text[4]),
                            10 * Val(text[6]) + Val(text[7]),
                            10 * Val(text[9]) + Val(text[10]),
                            fxIn.view.body.pubdate \div 86400)

C23_Witness ==
  /\ fxOut.fetcher = "getVideoInfo"
  /\ fxIn.view.body.pubdate = 19782 * 86400 + 86399
  /\ fxOut.info.publishDate = <<"2","0","2","4","-","0","2","-","2","9">>

\* C24: in enhanced mode a Data API answer with an item gives as thumbnailUrl
\* the URL of the highest tier present in the order high, medium, default,
\* and null only when none of the three is present.
C24_ThumbnailTierOrder ==
  (/\ fxOut.fetcher = "getYouTubeVideoInfo"
   /\ fxOut.calls = <<"dataApi">>
   /\ fxIn.api.net = "ok" /\ fxIn.api.ok /\ fxIn.api.json = "ok"
   /\ fxIn.api.body.hasItems) =>
    LET tiers == <<fxIn.api.body.high, fxIn.api.body.medium, fxIn.api.body.default>>
        present == {k \in 1..3 : tiers[k] # Null /\ tiers[k] # <<>>}
    IN  /\ present = {} => fxOut.out.info.thumbnailUrl = Null
        /\ present # {} =>
             \E k \in present : /\ \A j \in present : k <= j
                                /\ fxOut.out.info.thumbnailUrl = tiers[k]

C24_Witness ==
  /\ fxOut.fetcher = "getYouTubeVideoInfo"
  /\ fxOut.calls = <<"dataApi">>
  /\ fxIn.api.body.hasItems
  /\ fxIn.api.body.high = Null
  /\ fxIn.api.body.medium = <<"c","2">>
  /\ fxIn.api.body.default = <<"c","3">>
  /\ fxOut.out.info.thumbnailUrl = <<"c","2">>

\* C25: on a parsed Vimeo API answer getVimeoVideoInfo returns as
\* thumbnailUrl the link of a candidate of pictures.sizes whose width is the
\* maximum over the list, and null when the list is empty or missing.
C25_WidestPicture ==
  (/\ fxOut.fetcher = "getVimeoVideoInfo"
   /\ fxIn.api.net = "ok" /\ fxIn.api.ok /\ fxIn.api.json = "ok") =>
    LET sizes == fxIn.api.body.sizes
    IN  /\ ~fxOut.out.threw
        /\ Len(sizes) = 0 => fxOut.out.info.thumbnailUrl = Null
        /\ Len(sizes) > 0 =>
             \E k \in 1..Len(sizes) :
                /\ fxOut.out.info.thumbnailUrl = sizes[k].link
                /\ \A j \in 1..Len(sizes) : sizes[j].width <= sizes[k].width

C25_Witness ==
  /\ fxOut.fetcher = "getVimeoVideoInfo"
  /\ Len(fxIn.api.body.sizes) = 3
  /\ fxIn.api.body.sizes[1].width = 100
  /\ fxIn.api.body.sizes[2].width = 1280
  /\ fxIn.api.body.sizes[3].width = 640
  /\ fxOut.out.info.thumbnailUrl = fxIn.api.body.sizes[2].link

\* C30: a call of getCompleteVideoInfo issues exactly two requests, the
\* metadata request first and the tag request second, both before either
\* response has arrived, and whichever response arrives first the result is
\* the metadata of the metadata response with the tags of the tag response.
C30_TwoRequestsAnyOrder ==
  dual.pc # "idle" =>
    /\ dual.issued = <<"view", "tags">>
    /\ dual.pc = "resolved" =>
         /\ Len(dual.arrived) = 2
         /\ dual.result = [getVideoInfo(fxIn.view) EXCEPT !.tags = getVideoTags(fxIn.tags)]

C30_Witness ==
  /\ dual.pc = "resolved"
  /\ dual.arrived = <<"tags", "view">>
  /\ dual.result.coverUrl = Cover1
  /\ dual.result.tags = << <<"a">>, <<"b">> >>

\* C26: fetchWithRetry makes at most retries attempts (3 by default); a
\* response, ok or not, ends the call at once and is its result; every
\* attempt before the last one made has failed and was followed by one
\* retryDelay wait; when the last permitted attempt fails its error is
\* rethrown with no wait after it; and a call that has started ends.
C26_RetryPolicy ==
  /\ [](LET n == Len(retry.attempts)
            Failed(k) == retry.attempts[k].kind # "response"
        IN  retry.pc # "idle" =>
              /\ n <= retry.retries
              /\ retry.retries <= RetryAttempts
              /\ \A k \in 1..(n - 1) : Failed(k)
              /\ retry.pc = "fetching" => n = retry.i /\ retry.waits = n
              /\ retry.pc = "waiting" =>
                   n = retry.i + 1 /\ n < retry.retries /\ Failed(n) /\ retry.waits = n
              /\ retry.pc = "returned" =>
                   /\ n >= 1
                   /\ ~Failed(n)
                   /\ retry.result = retry.attempts[n]
                   /\ retry.waits = n - 1
              /\ (retry.pc = "threw" /\ retry.retries > 0) =>
                   /\ n = retry.retries
                   /\ Failed(n)
                   /\ retry.result = retry.attempts[n]
                   /\ retry.waits = n - 1)
  /\ (retry.pc \in {"fetching", "waiting"} ~> retry.pc \in {"returned", "threw"})

C26_Witness ==
  /\ retry.retries = RetryAttempts
  /\ retry.pc = "threw"
  /\ Len(retry.attempts) = 3
  /\ retry.waits = 2
  /\ retry.attempts[1].kind = "networkError"
  /\ retry.attempts[3].kind = "timeout"

\* C27 (as stated): at most one debounce timer is pending; every burst of
\* matching paste events has exactly one firing of the timer, debounceDelay
\* after its last event; and every firing starts one processBilibiliLink
\* invocation, on the block under the cursor at that moment.
C27_OneInvocationPerBurst ==
  paste.pc = "listening" =>
    /\ Cardinality(paste.timers) <= 1
    /\ ~paste.tie => Len(paste.fired) + Cardinality(paste.timers) = paste.bursts
    /\ \A k \in 1..Len(paste.fired) :
         paste.fired[k].at = paste.fired[k].lastEvent + DebounceTicks
    /\ Len(paste.started) = Len(paste.fired)
    /\ \A k \in 1..Len(paste.fired) : paste.started[k] = paste.fired[k].block

\* C27: at most one debounce timer is pending; every burst of matching paste
\* events (each less than debounceDelay after the previous one) has exactly
\* one firing of the timer, debounceDelay after its last event; a firing
\* starts one processBilibiliLink invocation on the block under the cursor
\* at that moment when the selection has an anchor, and none when it has
\* not.
C27_OneFiringPerBurst ==
  paste.pc = "listening" =>
    LET withAnchor == {k \in 1..Len(paste.fired) : paste.fired[k].block # 0}
    IN  /\ Cardinality(paste.timers) <= 1
        /\ ~paste.tie => Len(paste.fired) + Cardinality(paste.timers) = paste.bursts
        /\ \A k \in 1..Len(paste.fired) :
             paste.fired[k].at = paste.fired[k].lastEvent + DebounceTicks
        /\ Len(paste.started) = Cardinality(withAnchor)
        /\ \A k \in withAnchor :
             paste.started[Cardinality({j \in withAnchor : j <= k})] = paste.fired[k].block

C27_Witness ==
  /\ paste.events = 3
  /\ paste.bursts = 1
  /\ ~paste.tie
  /\ paste.lastEvent = 4
  /\ paste.timers = {}
  /\ Len(paste.fired) = 1
  /\ paste.fired[1].at = 7
  /\ paste.started = <<2>>

\* C28: tagInitialized is true iff a run of initializeBilibiliTag completed
\* successfully since the last unload; a call made while it is true issues no
\* host call; a failed run has issued at most three host calls and did not
\* set it; from an unload to the next load it is false, and the first call
\* after an unload initializes again (it is not skipped).
C28_MemoClearedByUnload ==
  memo.pc = "live" =>
    /\ memo.tagInitialized <=> memo.completedSince
    /\ \A k \in 1..Len(memo.runs) :
         /\ memo.runs[k].pc = "skipped" <=> memo.runs[k].calls = 0
         /\ memo.runs[k].fresh => memo.runs[k].pc # "skipped"
    /\ memo.unloaded => ~memo.tagInitialized

\* C29: an invocation that evaluated the check when the block held no image
\* of its cover goes on to insert, whatever the other invocation does
\* meanwhile (so two invocations that both checked before either inserted
\* both insert); and an invocation that started after another one with the
\* same cover URL had ended with its image inserted skips the insertion.
C29_CheckNotLock ==
  race.pc = "live" =>
    \A k \in Invocations :
      /\ race.inv[k].pc = "done" => race.inv[k].inserted
      /\ \A j \in race.inv[k].after :
           (/\ race.inv[j].inserted
            /\ race.inv[k].cover = race.inv[j].cover
            /\ race.inv[k].checkedWith >= 0)
           => race.inv[k].pc = "skipped"

\* C31: of two calls of initializeBilibiliTag of which the second started
\* while the first was suspended at an await, at most one inserts a tag
\* block.
C31_MemoGuardsOverlap ==
  memo.pc = "live" =>
    \A k \in 1..Len(memo.runs) :
      \A j \in memo.runs[k].overlaps :
        ~(memo.runs[j].createdBlock /\ memo.runs[k].createdBlock)

\* C32: after a sequence of load and unload calls that ends with unload, no
\* paste listener added by the plugin is attached to the document.
C32_NoListenerAfterUnload ==
  (life.pc = "live" /\ life.last = "unload") => life.attached = {}

\* C33: a processVideoLink invocation is never started by a timer that was
\* pending when unload ran.
C33_UnloadStopsTimers ==
  life.pc = "live" =>
    \A i \in 1..Len(life.started) : ~life.started[i].stale

\* C34: when an invocation has run on a block for the platform that
\* detectVideoPlatform assigns to it, the URL extracted from the block has a
\* video id and process*Link did not return before its fetch without a
\* notification.
C34_DetectorPipelineAgree ==
  (pc = "done" /\ platform # NoPlatform /\ detectVideoPlatform(block) = platform) =>
    LET u == ExtractUrl(platform, block)
        id == CASE platform = "bilibili" -> extractVideoId(u)
                [] platform = "youtube" -> extractYouTubeVideoId(u)
                [] platform = "vimeo" -> extractVimeoVideoId(u)
    IN  /\ u # Null
        /\ id # Null
        /\ outcome \notin {"noContent", "noUrl", "noId"}

\* C35: a pasted text that holds a URL matched by one of the three link
\* patterns makes handlePaste set its timer.
C35_TriggerCoversMatchers ==
  exOut.op = "paste" =>
    ((\E p \in Platforms : Test(p, exUrl)) => exOut.value # Null)

\* C36: every id passed to deleteBlocks, removed by it or reported in
\* deletedBlockIds is the id of a block of the state that has an alias
\* beginning with one of the three creator prefixes and no back-reference;
\* deleted <= unusedCreatorBlocks <= creatorBlocksFound <= totalChecked; and
\* when the lookup or deleteBlocks rejects, the call throws and reports no
\* deleted id.
C36_CleanupSafety ==
  cleanup.pc \in {"deleting", "returned", "threw"} =>
    LET blocks == cleanup.blocks
        Deletable(id) ==
          /\ id \in DOMAIN blocks
          /\ blocks[id].loaded
          /\ blocks[id].backRefs <= 0
          /\ \E k \in DOMAIN blocks[id].aliases :
               \E prefix \in CREATOR_PREFIXES :
                 /\ Len(blocks[id].aliases[k]) >= Len(prefix)
                 /\ \A c \in 1..Len(prefix) : blocks[id].aliases[k][c] = prefix[c]
        passed == cleanup.scan.blockIdsToDelete
        reported == cleanup.result.deletedBlockIds
    IN  /\ \A k \in DOMAIN passed : Deletable(passed[k])
        /\ \A k \in DOMAIN reported : Deletable(reported[k])
        /\ \A id \in cleanup.removed : Deletable(id)
        /\ cleanup.result.deleted <= cleanup.scan.unusedCreatorBlocks
        /\ cleanup.scan.unusedCreatorBlocks <= cleanup.scan.creatorBlocksFound
        /\ cleanup.scan.creatorBlocksFound <= cleanup.scan.totalChecked
        /\ cleanup.result.deleted = Len(reported)
        /\ cleanup.pc = "threw" => (~cleanup.result.returned /\ reported = <<>>)
        /\ cleanup.pc = "returned" => (cleanup.result.returned /\ reported = passed)

C36_Witness ==
  /\ cleanup.pc = "returned"
  /\ cleanup.result.deleted = 1
  /\ cleanup.removed = {2}
  /\ cleanup.scan.creatorBlocksFound = 2
  /\ cleanup.scan.totalChecked = 2
  /\ cleanup.blocks[1].backRefs = 1

C38_CacheBound ==
  cache.pc = "live" =>
    /\ Len(cache.entries) <= CacheMaxSize
    /\ cache.last = "set" =>
         LET KeysOf(m) == {m[i].key : i \in DOMAIN m}
         IN  /\ Cardinality(KeysOf(cache.lastSet.pre) \ KeysOf(cache.entries)) <= 1
             /\ Len(cache.entries) >= Len(cache.lastSet.pre)
                  \/ Len(cache.lastSet.pre) = CacheMaxSize

C38_Witness ==
  /\ cache.pc = "live"
  /\ cache.last = "set"
  /\ Len(cache.lastSet.pre) = CacheMaxSize
  /\ Len(cache.entries) = CacheMaxSize
  /\ \A i \in DOMAIN cache.entries : cache.entries[i].key # cache.lastSet.pre[1].key

\* C39: when an entry is stored into a full cache, the entry that is removed
\* has the oldest timestamp of the entries the cache held.  (An entry of the
\* cache before the call is removed when its key is no longer in the cache,
\* or when it is the stored key and has left its place for the end.)
C39_EvictsOldest ==
  (cache.pc = "live" /\ cache.last = "set" /\ Len(cache.lastSet.pre) >= CacheMaxSize) =>
    LET pre == cache.lastSet.pre
        post == cache.entries
        Place(key) == CHOOSE j \in DOMAIN post : post[j].key = key
        gone == {i \in DOMAIN pre :
                   IF \E j \in DOMAIN post : post[j].key = pre[i].key
                   THEN Place(pre[i].key) \notin {i, i - 1}
                   ELSE TRUE}
    IN  /\ Cardinality(gone) = 1
        /\ \A i \in gone : \A j \in DOMAIN pre : pre[i].timestamp <= pre[j].timestamp

====
